---- MODULE Spec2Model ----
(***************************************************************************)
(* Lease Lifecycle Manager (LeaseManager) and Shutdown Coordinator         *)
(* (lifecycle.ts) of opencode-antigravity-auth, as one state machine.      *)
(*                                                                         *)
(* Every async method is cut at its awaits.  The part up to the fetch is   *)
(* one action: it puts a call record in `calls`.  The part from the        *)
(* fetch's settlement on is one action: it takes the record out, with the  *)
(* answer of the remote side as its input.  All callbacks run on a single  *)
(* thread, so each part is atomic.                                         *)
(***************************************************************************)
EXTENDS Bags, FiniteSets, Integers, Sequences, TLC

\* ---------------------------------------------------------------- bounds
MaxInFlight == 2      \* operations suspended at an await at once
MaxLeases == 2        \* lease ids the broker grants in one run
MaxInit == 1          \* initLifecycle calls in one run
TickMs == 5000        \* granularity of the watchdog clock
MaxSteps == 3         \* steps of StepMs the timed specification lets pass
MaxReinit == 2        \* initLifecycle registrations the lifecycle specification lets happen
MaxModels == 3        \* entries of quotaData.models in one fetchAvailableModels answer

\* ------------------------------------------------------- program constants
WATCHDOG_TIMEOUT_MS == 10000
IDLE_CHECK_INTERVAL_MS == 60000
HeartbeatRatioPct == 50
DEFAULT_MAX_RATE_LIMIT_WAIT_MS == 10000
LowQuotaThresholdPct == 20
DEFAULT_QUOTA_CHECK_INTERVAL_MS == 120000
StartMs == 120000                  \* Date.now() when the manager is constructed
DEFAULT_IDLE_TIMEOUT_MS == 1200000
Undefined == -1                    \* a LeaseManagerConfig field left out
StepMs == IDLE_CHECK_INTERVAL_MS   \* what the clock advances by in one step

\* ------------------------------------------------------------ input sets
\* what a fetchAvailableModels answer holds: NoModels (no entries), NoQuotaInfo
\* (entries, none with a remainingFraction) or the minimum of the entries'
\* remaining fractions, in percent
NoModels == -1
NoQuotaInfo == -2
Signals == {"SIGTERM", "SIGINT", "SIGHUP"}
NoLease == [leaseId |-> 0, account |-> 0, expiresAt |-> 0]
NoPayload == [lease_id |-> 0, account |-> 0, expires_at |-> 0, ttl_seconds |-> 0]
\* what the broker puts in a granted lease and in a renewal
GrantData == [expires_at |-> 1, ttl_seconds |-> 120]
RenewData == [expires_at |-> 2, ttl_seconds |-> 240]
\* LeaseManagerConfig: the optional fields; thresholds in percent
NoConfig ==
    [idleTimeoutMs |-> Undefined, quotaCheckIntervalMs |-> Undefined,
     lowQuotaThreshold |-> Undefined, maxRateLimitWaitMs |-> Undefined]
IdleConfig == [NoConfig EXCEPT !.idleTimeoutMs = 120000]
CustomConfig ==
    [idleTimeoutMs |-> 120000, quotaCheckIntervalMs |-> 60000,
     lowQuotaThreshold |-> 21, maxRateLimitWaitMs |-> 30000]
Configs == {NoConfig, CustomConfig}
\* an entry of quotaData.models: quotaInfo's remainingFraction, in percent, and
\* resetTime, as a time; Undefined for a field that is left out
ModelInfos == [remainingFraction : {Undefined, 10, 20, 30}, resetTime : {Undefined, 1, 2}]
\* no answer scanned yet
NoScan == [percentage |-> Undefined, resetTime |-> Undefined]
\* what a step hands to the caller of handleRateLimit() or checkQuota()
NoReturn == [op |-> "none", action |-> "none", value |-> 0]
\* the step called the callback registered with onRelease()
Notified == [op |-> "onRelease", action |-> "called", value |-> 0]

VARIABLES
    lease,            \* LeaseManager.lease (NoLease models null)
    heartbeatTimer,   \* LeaseManager.heartbeatTimer (0 models null)
    idleCheckTimer,   \* LeaseManager.idleCheckTimer (0 models null)
    timers,           \* interval timers alive in the runtime
    idle,             \* Date.now() - lastActivity >= idleTimeoutMs
    quotaRecent,      \* Date.now() - lastQuotaCheck < quotaCheckIntervalMs
    calls,            \* bag of operations suspended at an await
    broker,           \* lease ids the broker holds for this clientId
    granted,          \* number of lease ids the broker has granted
    isShuttingDown,   \* lifecycle.ts isShuttingDown
    leaseManagerRef,  \* lifecycle.ts leaseManagerRef is set
    handlers,         \* handleShutdown listeners registered per signal
    watchdog,         \* -1: no watchdog pending, else ms since it was armed
    exitCode,         \* -1: process running, else its exit code
    lateStart,        \* a caller began a lease operation after shutdown began
    released,         \* release() was called and acquire() not called since
    shutdownDone,     \* handleShutdown ran to its last line
    signalReleases,   \* release() calls made by handleShutdown
    outcome,          \* <<operation, result, answer>> the step just taken ended with
    returned,         \* what the step just taken handed to the caller of handleRateLimit / checkQuota, or to the release callback
    clock,            \* Date.now(); it stands still unless the specification lets time pass
    lastActivity,     \* LeaseManager.lastActivity
    lastQuotaCheck,   \* LeaseManager.lastQuotaCheck
    config,           \* idleTimeoutMs, quotaCheckIntervalMs, lowQuotaThreshold, maxRateLimitWaitMs
    onReleaseCallback, \* LeaseManager.onReleaseCallback is set
    quotaData,        \* quotaData.models of the answer a poll scans, in Object.values order
    scanned           \* what the scan of quotaData came to: the minimum and the reset hint

\* waitMs values handed to handleRateLimit: the two around the threshold
WaitInputs == {config.maxRateLimitWaitMs, config.maxRateLimitWaitMs + 1}
\* minimum remaining fractions polled: the two around the low-quota threshold
Fractions == {NoModels, NoQuotaInfo, config.lowQuotaThreshold,
              config.lowQuotaThreshold + 1}

vars == <<lease, heartbeatTimer, idleCheckTimer, timers, idle, quotaRecent,
          calls, broker, granted, isShuttingDown, leaseManagerRef, handlers,
          watchdog, exitCode, lateStart, released, shutdownDone,
          signalReleases, outcome, returned, clock, lastActivity,
          lastQuotaCheck, config, onReleaseCallback, quotaData, scanned>>

mgrVars == <<lease, heartbeatTimer, idleCheckTimer, timers, idle, lastActivity>>
quotaVars == <<quotaRecent, lastQuotaCheck>>
brokerVars == <<broker, granted>>
scanVars == <<quotaData, scanned>>
lifeVars == <<isShuttingDown, leaseManagerRef, handlers, watchdog, exitCode,
              signalReleases>>
None == <<"none", "none", "none">>

\* ------------------------------------------------------------- accessors
hasActiveLease == lease # NoLease
getAccount == IF lease # NoLease THEN lease.account ELSE 0
getLease == lease
InFlight == BagCardinality(calls)
Running == exitCode = -1
\* a suspended operation; lid is the lease its request is about: the lease
\* to renew, release or replace, or the lease whose account's refresh token a
\* poll sent; val is the local its continuation still needs (waitMs in
\* handleRateLimit(), percentage in percent in checkQuota()) or, for the
\* models request of a poll, the account whose projectId it carries
CallWith(op, origin, lid, val) == [op |-> op, origin |-> origin, lid |-> lid, val |-> val]
Call(op, origin, lid) == CallWith(op, origin, lid, 0)
Decision(action, value) == [op |-> "handleRateLimit", action |-> action, value |-> value]
QuotaResult(action, value) == [op |-> "checkQuota", action |-> action, value |-> value]
Add(c) == calls (+) SetToBag({c})
Del(c) == calls (-) SetToBag({c})
Awaiting(op) == {c \in BagToSet(calls) : c.op = op}

\* ---------------------------------------------------------------- timers
\* HeartbeatIntervalMs without the DEFAULT_HEARTBEAT_RATIO factor
HeartbeatIntervalFullTtl(ttl) == ttl * 1000

HeartbeatIntervalMs(ttl) == (ttl * HeartbeatRatioPct * 1000) \div 100

\* clearInterval(h): the timer with handle h stops existing
Cleared(T, h) == {t \in T : t.id # h}

\* setInterval(f, ms) at time `clock`: a timer [id, kind, ms, at, due], armed
\* at `at`, that calls f next at `due`, every ms from `at` on
\* the handle setInterval returns: one no live timer has
NewId(T) ==
    LET used == {t.id : t \in T}
        free == {i \in 1..(Cardinality(T) + 1) : i \notin used}
    IN  CHOOSE i \in free : \A j \in free : i <= j

\* the private timer methods, on a timer state [T, hb, ic]
stopHeartbeat(s) ==
    IF s.hb # 0 THEN [s EXCEPT !.T = Cleared(s.T, s.hb), !.hb = 0] ELSE s

stopIdleCheck(s) ==
    IF s.ic # 0 THEN [s EXCEPT !.T = Cleared(s.T, s.ic), !.ic = 0] ELSE s

\* startHeartbeat without the stopHeartbeat() it begins with
startHeartbeatNoStop(s, ttl) ==
    LET id == NewId(s.T)
    IN  [s EXCEPT !.T = s.T \cup {[id |-> id, kind |-> "heartbeat",
                                    ms |-> HeartbeatIntervalMs(ttl),
                                    at |-> clock,
                                    due |-> clock + HeartbeatIntervalMs(ttl)]},
                  !.hb = id]

startHeartbeat(s, ttl) ==
    LET s1 == stopHeartbeat(s)
        id == NewId(s1.T)
    IN  [s1 EXCEPT !.T = s1.T \cup {[id |-> id, kind |-> "heartbeat",
                                      ms |-> HeartbeatIntervalMs(ttl),
                                      at |-> clock,
                                      due |-> clock + HeartbeatIntervalMs(ttl)]},
                   !.hb = id]

startIdleCheck(s) ==
    LET s1 == stopIdleCheck(s)
        id == NewId(s1.T)
    IN  [s1 EXCEPT !.T = s1.T \cup {[id |-> id, kind |-> "idle",
                                      ms |-> IDLE_CHECK_INTERVAL_MS,
                                      at |-> clock,
                                      due |-> clock + IDLE_CHECK_INTERVAL_MS]},
                   !.ic = id]

TimerState == [T |-> timers, hb |-> heartbeatTimer, ic |-> idleCheckTimer]

SetTimers(s) ==
    /\ timers' = s.T
    /\ heartbeatTimer' = s.hb
    /\ idleCheckTimer' = s.ic

\* ---------------------------------------------------------------- broker
\* How the remote side can answer a request.  resp is what the fetch settles
\* with: "ok", "undecryptable" (ok, but the account ciphertext does not
\* decrypt), "malformed" (ok, but no lease_id / account), "status" (a
\* non-success HTTP status) or "neterr" (transport error or abort on
\* timeout).  served tells whether the broker carried the request out; with
\* "neterr" the answer got lost and either is possible.  A renew call with
\* val = 1 is one the broker has served already (RenewServed): its answer is
\* under way.
Answers(c) ==
    LET grantable == granted < MaxLeases
        known == c.lid \in broker
    IN  CASE c.op = "acquire" ->
               {<<"status", FALSE>>, <<"neterr", FALSE>>}
               \cup (IF grantable
                     THEN {<<"ok", TRUE>>, <<"undecryptable", TRUE>>, <<"neterr", TRUE>>}
                     ELSE {})
          [] c.op = "renew" ->
               IF c.val = 1
               THEN {<<"ok", TRUE>>, <<"neterr", TRUE>>}
               ELSE {<<"status", FALSE>>, <<"neterr", FALSE>>}
                    \cup (IF known THEN {<<"ok", TRUE>>, <<"neterr", TRUE>>} ELSE {})
          [] c.op = "release" ->
               {<<"ok", TRUE>>, <<"status", FALSE>>, <<"neterr", TRUE>>, <<"neterr", FALSE>>}
          [] c.op = "reportIssue" ->
               {<<"status", FALSE>>, <<"malformed", FALSE>>, <<"neterr", FALSE>>}
               \cup (IF grantable /\ known
                     THEN {<<"ok", TRUE>>, <<"undecryptable", TRUE>>, <<"neterr", TRUE>>}
                     ELSE {})
          [] OTHER ->
               {<<"ok", TRUE>>, <<"status", FALSE>>, <<"neterr", FALSE>>}

\* the lease payload of an ok answer to acquire / report-issue
Granted ==
    [lease_id |-> granted + 1, account |-> granted + 1,
     expires_at |-> GrantData.expires_at, ttl_seconds |-> GrantData.ttl_seconds]

\* what serving the request does to the broker's lease table
Serve(c, served) ==
    IF ~served THEN UNCHANGED brokerVars
    ELSE CASE c.op = "acquire" ->
                /\ broker' = broker \cup {granted + 1}
                /\ granted' = granted + 1
           [] c.op = "release" ->
                /\ broker' = broker \ {c.lid}
                /\ granted' = granted
           [] c.op = "reportIssue" ->
                /\ broker' = (broker \ {c.lid}) \cup {granted + 1}
                /\ granted' = granted + 1
           [] OTHER -> UNCHANGED brokerVars

\* the broker's expiry sweep drops a lease whose TTL ran out
BrokerExpire(l) ==
    /\ Running
    /\ UNCHANGED <<clock, config, onReleaseCallback, scanVars>>
    /\ l \in broker
    /\ broker' = broker \ {l}
    /\ outcome' = None
    /\ returned' = NoReturn
    /\ UNCHANGED <<mgrVars, quotaVars, calls, granted, lifeVars, lateStart,
                   released, shutdownDone>>

\* ------------------------------------------------------------------ Init
\* the constructor's `config.x ?? DEFAULT_X` for the four optional fields
Constructor(cfg) ==
    [idleTimeoutMs |->
        IF cfg.idleTimeoutMs = Undefined THEN DEFAULT_IDLE_TIMEOUT_MS
        ELSE cfg.idleTimeoutMs,
     quotaCheckIntervalMs |->
        IF cfg.quotaCheckIntervalMs = Undefined THEN DEFAULT_QUOTA_CHECK_INTERVAL_MS
        ELSE cfg.quotaCheckIntervalMs,
     lowQuotaThreshold |->
        IF cfg.lowQuotaThreshold = Undefined THEN LowQuotaThresholdPct
        ELSE cfg.lowQuotaThreshold,
     maxRateLimitWaitMs |->
        IF cfg.maxRateLimitWaitMs = Undefined THEN DEFAULT_MAX_RATE_LIMIT_WAIT_MS
        ELSE cfg.maxRateLimitWaitMs]

\* the fields of a manager just constructed, and lifecycle.ts just loaded
Fresh ==
    /\ lease = NoLease
    /\ heartbeatTimer = 0
    /\ idleCheckTimer = 0
    /\ timers = {}
    /\ idle = FALSE
    /\ quotaRecent = FALSE
    /\ calls = EmptyBag
    /\ broker = {}
    /\ granted = 0
    /\ isShuttingDown = FALSE
    /\ leaseManagerRef = FALSE
    /\ handlers = 0
    /\ watchdog = -1
    /\ exitCode = -1
    /\ lateStart = FALSE
    /\ released = FALSE
    /\ shutdownDone = FALSE
    /\ signalReleases = 0
    /\ outcome = None
    /\ returned = NoReturn
    /\ clock = StartMs
    /\ lastActivity = StartMs
    /\ lastQuotaCheck = 0
    /\ onReleaseCallback = FALSE
    /\ scanned = NoScan

\* a manager constructed without any of the optional fields
Init ==
    /\ Fresh
    /\ quotaData = <<>>
    /\ config = Constructor(NoConfig)

\* ----------------------------------------------------- LeaseManager.acquire
\* acquire() up to `await fetchWithTimeout(.../api/lease/acquire)`
AcquireCall ==
    /\ Running
    /\ UNCHANGED <<clock, config, onReleaseCallback, scanVars>>
    /\ InFlight < MaxInFlight
    /\ calls' = Add(Call("acquire", "caller", 0))
    /\ released' = FALSE
    /\ lateStart' = (lateStart \/ isShuttingDown)
    /\ outcome' = None
    /\ returned' = NoReturn
    /\ UNCHANGED <<mgrVars, quotaVars, brokerVars, lifeVars, shutdownDone>>

\* AcquireEffect with the heartbeat armed before the payload is decrypted
AcquireEffectArmsFirst(resp, data) ==
    IF resp = "ok"
    THEN /\ lease' = [leaseId |-> data.lease_id,
                      account |-> data.account,
                      expiresAt |-> data.expires_at]
         /\ SetTimers(startIdleCheck(startHeartbeat(TimerState, data.ttl_seconds)))
         /\ idle' = FALSE
         /\ lastActivity' = clock
         /\ outcome' = <<"acquire", "ok", resp>>
         /\ returned' = NoReturn
    ELSE IF resp = "undecryptable"
    THEN /\ SetTimers(startHeartbeat(TimerState, data.ttl_seconds))
         /\ UNCHANGED <<lease, idle, lastActivity>>
         /\ outcome' = <<"acquire", "AcquireFailure", resp>>
         /\ returned' = NoReturn
    ELSE /\ UNCHANGED mgrVars
         /\ outcome' = <<"acquire", "AcquireFailure", resp>>
         /\ returned' = NoReturn

\* what acquire() does to the manager once the fetch has settled
AcquireEffect(resp, data) ==
    IF resp = "ok"
    THEN /\ lease' = [leaseId |-> data.lease_id,
                      account |-> data.account,
                      expiresAt |-> data.expires_at]
         /\ SetTimers(startIdleCheck(startHeartbeat(TimerState, data.ttl_seconds)))
         /\ idle' = FALSE
         /\ lastActivity' = clock
         /\ outcome' = <<"acquire", "ok", resp>>
         /\ returned' = NoReturn
    ELSE /\ UNCHANGED mgrVars
         /\ outcome' = <<"acquire", "AcquireFailure", resp>>
         /\ returned' = NoReturn

\* acquire() from the fetch's settlement to its return or throw
AcquireReturn(c) ==
    /\ Running
    /\ UNCHANGED <<clock, config, onReleaseCallback, scanVars>>
    /\ c \in Awaiting("acquire")
    /\ \E a \in Answers(c) :
          /\ AcquireEffect(a[1], Granted)
          /\ Serve(c, a[2])
    /\ calls' = Del(c)
    /\ UNCHANGED <<quotaVars, lifeVars, lateStart, released, shutdownDone>>

\* ----------------------------------------------------- LeaseManager.release
\* ReleaseStart with the lease still in place while the fetch is awaited
ReleaseStartKeepsLease(origin) ==
    /\ SetTimers(stopIdleCheck(stopHeartbeat(TimerState)))
    /\ released' = TRUE
    /\ lease' = lease
    /\ idle' = idle
    /\ lastActivity' = lastActivity
    /\ IF lease = NoLease
       THEN /\ calls' = calls
            /\ outcome' = <<"release", "resolved", "none">>
            /\ returned' = NoReturn
       ELSE /\ InFlight < MaxInFlight
            /\ calls' = Add(Call("release", origin, lease.leaseId))
            /\ outcome' = None
            /\ returned' = NoReturn

\* ReleaseStart without stopIdleCheck()
ReleaseStartKeepsIdleCheck(origin) ==
    /\ SetTimers(stopHeartbeat(TimerState))
    /\ released' = TRUE
    /\ lease' = NoLease
    /\ idle' = idle
    /\ lastActivity' = lastActivity
    /\ IF lease = NoLease
       THEN /\ calls' = calls
            /\ outcome' = <<"release", "resolved", "none">>
            /\ returned' = NoReturn
       ELSE /\ InFlight < MaxInFlight
            /\ calls' = Add(Call("release", origin, lease.leaseId))
            /\ outcome' = None
            /\ returned' = NoReturn

\* ReleaseStart without stopHeartbeat() and stopIdleCheck()
ReleaseStartKeepsTimers(origin) ==
    /\ SetTimers(TimerState)
    /\ released' = TRUE
    /\ lease' = NoLease
    /\ idle' = idle
    /\ lastActivity' = lastActivity
    /\ IF lease = NoLease
       THEN /\ calls' = calls
            /\ outcome' = <<"release", "resolved", "none">>
            /\ returned' = NoReturn
       ELSE /\ InFlight < MaxInFlight
            /\ calls' = Add(Call("release", origin, lease.leaseId))
            /\ outcome' = None
            /\ returned' = NoReturn

\* ReleaseStart that does not await its fetch: release() resolves as soon as
\* the request is sent
ReleaseStartDetached(origin) ==
    /\ SetTimers(stopIdleCheck(stopHeartbeat(TimerState)))
    /\ released' = TRUE
    /\ lease' = NoLease
    /\ idle' = idle
    /\ lastActivity' = lastActivity
    /\ IF lease = NoLease
       THEN /\ calls' = calls
            /\ outcome' = <<"release", "resolved", "none">>
            /\ returned' = NoReturn
       ELSE /\ InFlight < MaxInFlight
            /\ calls' = Add(Call("release", origin, lease.leaseId))
            /\ outcome' = <<"release", "resolved", "none">>
            /\ returned' = NoReturn

\* release() up to `await fetch(.../api/lease/release)`, or to its early
\* return; the caller of ReleaseStart says what else the step changes
ReleaseStart(origin) ==
    /\ SetTimers(stopIdleCheck(stopHeartbeat(TimerState)))
    /\ released' = TRUE
    /\ lease' = NoLease
    /\ idle' = idle
    /\ lastActivity' = lastActivity
    /\ IF lease = NoLease
       THEN /\ calls' = calls
            /\ outcome' = <<"release", "resolved", "none">>
            /\ returned' = NoReturn
       ELSE /\ InFlight < MaxInFlight
            /\ calls' = Add(Call("release", origin, lease.leaseId))
            /\ outcome' = None
            /\ returned' = NoReturn

ReleaseCall ==
    /\ Running
    /\ UNCHANGED <<clock, config, onReleaseCallback, scanVars>>
    /\ ReleaseStart("caller")
    /\ lateStart' = (lateStart \/ isShuttingDown)
    /\ UNCHANGED <<quotaVars, brokerVars, lifeVars, shutdownDone>>

\* ReleaseResult without the catch around the fetch
ReleaseResultRethrows(resp) == IF resp = "neterr" THEN "ReleaseFailure" ELSE "resolved"

\* how release() ends for each way its fetch can settle
ReleaseResult(resp) == "resolved"

\* ReleaseReturn without the coordinator's clearTimeout(watchdog)
ReleaseReturnKeepsWatchdog(c) ==
    /\ Running
    /\ UNCHANGED <<clock, config, onReleaseCallback, scanVars>>
    /\ c \in Awaiting("release")
    /\ \E a \in Answers(c) :
          /\ outcome' = <<"release", ReleaseResult(a[1]), a[1]>>
          /\ returned' = IF onReleaseCallback THEN Notified ELSE NoReturn
          /\ Serve(c, a[2])
    /\ calls' = Del(c)
    /\ watchdog' = watchdog
    /\ shutdownDone' = (shutdownDone \/ c.origin = "signal")
    /\ UNCHANGED <<mgrVars, quotaVars, isShuttingDown, leaseManagerRef,
                   handlers, exitCode, lateStart, released, signalReleases>>

\* ReleaseReturn that calls the callback only when the broker answered ok
ReleaseReturnNotifiesOnSuccess(c) ==
    /\ Running
    /\ UNCHANGED <<clock, config, onReleaseCallback, scanVars>>
    /\ c \in Awaiting("release")
    /\ \E a \in Answers(c) :
          /\ outcome' = <<"release", ReleaseResult(a[1]), a[1]>>
          /\ returned' = IF onReleaseCallback /\ a[1] = "ok" THEN Notified ELSE NoReturn
          /\ Serve(c, a[2])
    /\ calls' = Del(c)
    /\ IF c.origin = "signal"
       THEN /\ watchdog' = -1
            /\ shutdownDone' = TRUE
       ELSE UNCHANGED <<watchdog, shutdownDone>>
    /\ UNCHANGED <<mgrVars, quotaVars, isShuttingDown, leaseManagerRef,
                   handlers, exitCode, lateStart, released, signalReleases>>

\* release() from the fetch's settlement to its return, the registered
\* callback called on the way; a release awaited by handleShutdown continues
\* into the coordinator's last lines
ReleaseReturn(c) ==
    /\ Running
    /\ UNCHANGED <<clock, config, onReleaseCallback, scanVars>>
    /\ c \in Awaiting("release")
    /\ \E a \in Answers(c) :
          /\ outcome' = <<"release", ReleaseResult(a[1]), a[1]>>
          /\ returned' = IF onReleaseCallback THEN Notified ELSE NoReturn
          /\ Serve(c, a[2])
    /\ calls' = Del(c)
    /\ IF c.origin = "signal"
       THEN /\ watchdog' = -1
            /\ shutdownDone' = TRUE
       ELSE UNCHANGED <<watchdog, shutdownDone>>
    /\ UNCHANGED <<mgrVars, quotaVars, isShuttingDown, leaseManagerRef,
                   handlers, exitCode, lateStart, released, signalReleases>>

\* ---------------------------------------------------- LeaseManager.onRelease
onRelease ==
    /\ Running
    /\ UNCHANGED <<clock, config, scanVars>>
    /\ onReleaseCallback' = TRUE
    /\ outcome' = None
    /\ returned' = NoReturn
    /\ UNCHANGED <<mgrVars, quotaVars, calls, brokerVars, lifeVars, lateStart,
                   released, shutdownDone>>

\* ------------------------------------------------ LeaseManager.checkQuota
\* CheckQuotaStart without `this.lastQuotaCheck = now`
CheckQuotaStartNoStamp(rest) ==
    IF lease = NoLease
    THEN /\ quotaRecent' = quotaRecent
         /\ lastQuotaCheck' = lastQuotaCheck
         /\ calls' = rest
         /\ outcome' = <<"checkQuota", "null", "none">>
         /\ returned' = QuotaResult("null", 0)
    ELSE IF quotaRecent
    THEN /\ quotaRecent' = quotaRecent
         /\ lastQuotaCheck' = lastQuotaCheck
         /\ calls' = rest
         /\ outcome' = <<"checkQuota", "null", "none">>
         /\ returned' = QuotaResult("null", 0)
    ELSE /\ quotaRecent' = quotaRecent
         /\ lastQuotaCheck' = lastQuotaCheck
         /\ calls' = rest (+) SetToBag({Call("token", "quota", lease.leaseId)})
         /\ outcome' = None
         /\ returned' = NoReturn

\* checkQuota() up to `await fetchWithTimeout(oauth2 token)`, or to one of
\* its two early returns; `rest` is the bag the new call is added to
CheckQuotaStart(rest) ==
    IF lease = NoLease
    THEN /\ quotaRecent' = quotaRecent
         /\ lastQuotaCheck' = lastQuotaCheck
         /\ calls' = rest
         /\ outcome' = <<"checkQuota", "null", "none">>
         /\ returned' = QuotaResult("null", 0)
    ELSE IF quotaRecent
    THEN /\ quotaRecent' = quotaRecent
         /\ lastQuotaCheck' = lastQuotaCheck
         /\ calls' = rest
         /\ outcome' = <<"checkQuota", "null", "none">>
         /\ returned' = QuotaResult("null", 0)
    ELSE /\ quotaRecent' = TRUE
         /\ lastQuotaCheck' = clock
         /\ calls' = rest (+) SetToBag({Call("token", "quota", lease.leaseId)})
         /\ outcome' = None
         /\ returned' = NoReturn

CheckQuotaCall ==
    /\ Running
    /\ UNCHANGED <<clock, config, onReleaseCallback, scanVars>>
    /\ lease # NoLease /\ ~quotaRecent => InFlight < MaxInFlight
    /\ CheckQuotaStart(calls)
    /\ lateStart' = (lateStart \/ isShuttingDown)
    /\ UNCHANGED <<mgrVars, brokerVars, lifeVars, released, shutdownDone>>

\* TokenReturn without the try/catch around the read of this.lease
TokenReturnUncaught(c) ==
    /\ Running
    /\ UNCHANGED <<clock, config, onReleaseCallback, scanVars>>
    /\ c \in Awaiting("token")
    /\ \E a \in Answers(c) :
          IF a[1] = "ok" /\ lease # NoLease
          THEN /\ calls' = Del(c) (+) SetToBag({CallWith("models", "quota", c.lid, lease.account)})
               /\ outcome' = None
               /\ returned' = NoReturn
          ELSE /\ calls' = Del(c)
               /\ outcome' = <<"checkQuota", IF a[1] = "ok" THEN "TypeError" ELSE "null", a[1]>>
               /\ returned' = IF a[1] = "ok" THEN NoReturn ELSE QuotaResult("null", 0)
    /\ UNCHANGED <<mgrVars, quotaVars, brokerVars, lifeVars, lateStart,
                   released, shutdownDone>>

\* TokenReturn with lastQuotaCheck put back to 0 when the token refresh fails
TokenReturnResetsStamp(c) ==
    /\ Running
    /\ UNCHANGED <<clock, config, onReleaseCallback, scanVars>>
    /\ c \in Awaiting("token")
    /\ \E a \in Answers(c) :
          IF a[1] = "ok" /\ lease # NoLease
          THEN /\ calls' = Del(c) (+) SetToBag({CallWith("models", "quota", c.lid, lease.account)})
               /\ outcome' = None
               /\ returned' = NoReturn
               /\ UNCHANGED quotaVars
          ELSE /\ calls' = Del(c)
               /\ outcome' = <<"checkQuota", "null", a[1]>>
               /\ returned' = QuotaResult("null", 0)
               /\ quotaRecent' = FALSE
               /\ lastQuotaCheck' = 0
    /\ UNCHANGED <<mgrVars, brokerVars, lifeVars, lateStart,
                   released, shutdownDone>>

\* checkQuota() from the token fetch's settlement to the await of the
\* fetchAvailableModels fetch; building that request reads this.lease
TokenReturn(c) ==
    /\ Running
    /\ UNCHANGED <<clock, config, onReleaseCallback, scanVars>>
    /\ c \in Awaiting("token")
    /\ \E a \in Answers(c) :
          IF a[1] = "ok" /\ lease # NoLease
          THEN /\ calls' = Del(c) (+) SetToBag({CallWith("models", "quota", c.lid, lease.account)})
               /\ outcome' = None
               /\ returned' = NoReturn
          ELSE /\ calls' = Del(c)
               /\ outcome' = <<"checkQuota", "null", a[1]>>
               /\ returned' = QuotaResult("null", 0)
    /\ UNCHANGED <<mgrVars, quotaVars, brokerVars, lifeVars, lateStart,
                   released, shutdownDone>>

\* MinRemainingPct with the minimum started at 0 instead of 1
MinRemainingPctFromZero(f) == IF f \in {NoModels, NoQuotaInfo} THEN 0 ELSE f

\* the loop over quotaData.models: the minimum remaining fraction, in
\* percent; it starts at 1 and only an entry's remainingFraction lowers it
MinRemainingPct(f) == IF f \in {NoModels, NoQuotaInfo} THEN 100 ELSE f

\* the kind of 200 answer of fetchAvailableModels
ModelsAnswer(f) ==
    CASE f = NoModels -> "empty"
      [] f = NoQuotaInfo -> "noQuotaInfo"
      [] OTHER -> "ok"

\* ModelsReturn with `<` for the `<=` of the low-quota test
ModelsReturnStrictlyBelow(c) ==
    /\ Running
    /\ UNCHANGED <<clock, config, onReleaseCallback, scanVars>>
    /\ c \in Awaiting("models")
    /\ \E a \in Answers(c), f \in Fractions :
          IF a[1] # "ok"
          THEN /\ calls' = Del(c)
               /\ outcome' = <<"checkQuota", "null", a[1]>>
               /\ returned' = QuotaResult("null", 0)
          ELSE LET percentage == MinRemainingPct(f)
                   report == IF lease # NoLease /\ f # NoModels
                             THEN SetToBag({Call("quotaReport", "quota", 0)})
                             ELSE EmptyBag
                   switch == IF percentage < config.lowQuotaThreshold /\ lease # NoLease
                             THEN SetToBag({CallWith("reportIssue", "quota",
                                                     lease.leaseId, percentage)})
                             ELSE EmptyBag
               IN  /\ calls' = (Del(c) (+) report) (+) switch
                   /\ BagCardinality(calls') <= MaxInFlight
                   /\ IF switch # EmptyBag
                      THEN /\ outcome' = None
                           /\ returned' = NoReturn
                      ELSE /\ outcome' = <<"checkQuota", "result", ModelsAnswer(f)>>
                           /\ returned' = QuotaResult("result", percentage)
    /\ UNCHANGED <<mgrVars, quotaVars, brokerVars, lifeVars, lateStart,
                   released, shutdownDone>>

\* checkQuota() from the models fetch's settlement on: the detached
\* reportQuotaToServer() and, on low quota, reportIssue() up to its await
ModelsReturn(c) ==
    /\ Running
    /\ UNCHANGED <<clock, config, onReleaseCallback, scanVars>>
    /\ c \in Awaiting("models")
    /\ \E a \in Answers(c), f \in Fractions :
          IF a[1] # "ok"
          THEN /\ calls' = Del(c)
               /\ outcome' = <<"checkQuota", "null", a[1]>>
               /\ returned' = QuotaResult("null", 0)
          ELSE LET percentage == MinRemainingPct(f)
                   report == IF lease # NoLease /\ f # NoModels
                             THEN SetToBag({Call("quotaReport", "quota", 0)})
                             ELSE EmptyBag
                   switch == IF percentage <= config.lowQuotaThreshold /\ lease # NoLease
                             THEN SetToBag({CallWith("reportIssue", "quota",
                                                     lease.leaseId, percentage)})
                             ELSE EmptyBag
               IN  /\ calls' = (Del(c) (+) report) (+) switch
                   /\ BagCardinality(calls') <= MaxInFlight
                   /\ IF switch # EmptyBag
                      THEN /\ outcome' = None
                           /\ returned' = NoReturn
                      ELSE /\ outcome' = <<"checkQuota", "result", ModelsAnswer(f)>>
                           /\ returned' = QuotaResult("result", percentage)
    /\ UNCHANGED <<mgrVars, quotaVars, brokerVars, lifeVars, lateStart,
                   released, shutdownDone>>

\* reportQuotaToServer() from its fetch's settlement on: it only logs
QuotaReportReturn(c) ==
    /\ Running
    /\ UNCHANGED <<clock, config, onReleaseCallback, scanVars>>
    /\ c \in Awaiting("quotaReport")
    /\ calls' = Del(c)
    /\ outcome' = None
    /\ returned' = NoReturn
    /\ UNCHANGED <<mgrVars, quotaVars, brokerVars, lifeVars, lateStart,
                   released, shutdownDone>>

\* ----------------------------------------------------- LeaseManager.renew
\* RenewStart without the `if (!this.lease) throw`
RenewStartUnguarded(origin) ==
    /\ InFlight < MaxInFlight
    /\ calls' = Add(Call("renew", origin, lease.leaseId))
    /\ outcome' = None
    /\ returned' = NoReturn

\* renew() up to its await, or to its throw when no lease is held
RenewStart(origin) ==
    IF lease = NoLease
    THEN /\ calls' = calls
         /\ outcome' = <<"renew", "NoActiveLease", "none">>
         /\ returned' = NoReturn
    ELSE /\ InFlight < MaxInFlight
         /\ calls' = Add(Call("renew", origin, lease.leaseId))
         /\ outcome' = None
         /\ returned' = NoReturn

RenewCall ==
    /\ Running
    /\ UNCHANGED <<clock, config, onReleaseCallback, scanVars>>
    /\ RenewStart("caller")
    /\ lateStart' = (lateStart \/ isShuttingDown)
    /\ UNCHANGED <<mgrVars, quotaVars, brokerVars, lifeVars, released, shutdownDone>>

\* RenewReturn with the heartbeat cancelled when the renewal fails
RenewReturnStopsHeartbeat(c) ==
    /\ Running
    /\ UNCHANGED <<clock, config, onReleaseCallback, scanVars>>
    /\ c \in Awaiting("renew")
    /\ \E a \in Answers(c) :
          /\ Serve(c, a[2])
          /\ IF a[1] = "ok" /\ lease # NoLease
             THEN /\ lease' = [lease EXCEPT !.expiresAt = RenewData.expires_at]
                  /\ SetTimers(startHeartbeat(stopHeartbeat(TimerState),
                                              RenewData.ttl_seconds))
                  /\ idle' = idle
                  /\ lastActivity' = lastActivity
                  /\ IF c.origin = "heartbeat"
                     THEN CheckQuotaStart(Del(c))
                     ELSE /\ calls' = Del(c)
                          /\ quotaRecent' = quotaRecent
                          /\ lastQuotaCheck' = lastQuotaCheck
                          /\ outcome' = <<"renew", "ok", a[1]>>
                          /\ returned' = NoReturn
             ELSE /\ SetTimers(stopHeartbeat(TimerState))
                  /\ UNCHANGED <<lease, idle, lastActivity, quotaVars>>
                  /\ calls' = Del(c)
                  /\ outcome' = <<"renew", "RenewFailure", a[1]>>
                  /\ returned' = NoReturn
    /\ UNCHANGED <<lifeVars, lateStart, released, shutdownDone>>

\* RenewReturn with the tick's checkQuota() chained to a failed renew() too
RenewReturnPollsAlways(c) ==
    /\ Running
    /\ UNCHANGED <<clock, config, onReleaseCallback, scanVars>>
    /\ c \in Awaiting("renew")
    /\ \E a \in Answers(c) :
          /\ Serve(c, a[2])
          /\ IF a[1] = "ok" /\ lease # NoLease
             THEN /\ lease' = [lease EXCEPT !.expiresAt = RenewData.expires_at]
                  /\ SetTimers(startHeartbeat(stopHeartbeat(TimerState),
                                              RenewData.ttl_seconds))
                  /\ idle' = idle
                  /\ lastActivity' = lastActivity
                  /\ IF c.origin = "heartbeat"
                     THEN CheckQuotaStart(Del(c))
                     ELSE /\ calls' = Del(c)
                          /\ quotaRecent' = quotaRecent
                          /\ lastQuotaCheck' = lastQuotaCheck
                          /\ outcome' = <<"renew", "ok", a[1]>>
                          /\ returned' = NoReturn
             ELSE /\ UNCHANGED mgrVars
                  /\ IF c.origin = "heartbeat"
                     THEN CheckQuotaStart(Del(c))
                     ELSE /\ calls' = Del(c)
                          /\ quotaRecent' = quotaRecent
                          /\ lastQuotaCheck' = lastQuotaCheck
                          /\ outcome' = <<"renew", "RenewFailure", a[1]>>
                          /\ returned' = NoReturn
    /\ UNCHANGED <<lifeVars, lateStart, released, shutdownDone>>

\* RenewReturn without the stopHeartbeat() / startHeartbeat() of a renewal
RenewReturnKeepsCadence(c) ==
    /\ Running
    /\ UNCHANGED <<clock, config, onReleaseCallback, scanVars>>
    /\ c \in Awaiting("renew")
    /\ \E a \in Answers(c) :
          /\ Serve(c, a[2])
          /\ IF a[1] = "ok" /\ lease # NoLease
             THEN /\ lease' = [lease EXCEPT !.expiresAt = RenewData.expires_at]
                  /\ SetTimers(TimerState)
                  /\ idle' = idle
                  /\ lastActivity' = lastActivity
                  /\ IF c.origin = "heartbeat"
                     THEN CheckQuotaStart(Del(c))
                     ELSE /\ calls' = Del(c)
                          /\ quotaRecent' = quotaRecent
                          /\ lastQuotaCheck' = lastQuotaCheck
                          /\ outcome' = <<"renew", "ok", a[1]>>
                          /\ returned' = NoReturn
             ELSE /\ UNCHANGED <<mgrVars, quotaVars>>
                  /\ calls' = Del(c)
                  /\ outcome' = <<"renew", "RenewFailure", a[1]>>
                  /\ returned' = NoReturn
    /\ UNCHANGED <<lifeVars, lateStart, released, shutdownDone>>

\* renew() from the fetch's settlement to its return or throw; the heartbeat
\* tick's .then(() => this.checkQuota()) runs in the same turn
RenewReturn(c) ==
    /\ Running
    /\ UNCHANGED <<clock, config, onReleaseCallback, scanVars>>
    /\ c \in Awaiting("renew")
    /\ \E a \in Answers(c) :
          /\ Serve(c, a[2])
          /\ IF a[1] = "ok" /\ lease # NoLease
             THEN /\ lease' = [lease EXCEPT !.expiresAt = RenewData.expires_at]
                  /\ SetTimers(startHeartbeat(stopHeartbeat(TimerState),
                                              RenewData.ttl_seconds))
                  /\ idle' = idle
                  /\ lastActivity' = lastActivity
                  /\ IF c.origin = "heartbeat"
                     THEN CheckQuotaStart(Del(c))
                     ELSE /\ calls' = Del(c)
                          /\ quotaRecent' = quotaRecent
                          /\ lastQuotaCheck' = lastQuotaCheck
                          /\ outcome' = <<"renew", "ok", a[1]>>
                          /\ returned' = NoReturn
             ELSE /\ UNCHANGED <<mgrVars, quotaVars>>
                  /\ calls' = Del(c)
                  /\ outcome' = <<"renew", "RenewFailure", a[1]>>
                  /\ returned' = NoReturn
    /\ UNCHANGED <<lifeVars, lateStart, released, shutdownDone>>

\* the broker serves the renew request c; its answer is under way and
\* reaches the manager in a later step
RenewServed(c) ==
    /\ Running
    /\ UNCHANGED <<clock, config, onReleaseCallback, scanVars>>
    /\ c \in Awaiting("renew")
    /\ c.val = 0
    /\ c.lid \in broker
    /\ calls' = Del(c) (+) SetToBag({[c EXCEPT !.val = 1]})
    /\ outcome' = None
    /\ returned' = NoReturn
    /\ UNCHANGED <<mgrVars, quotaVars, brokerVars, lifeVars, lateStart,
                   released, shutdownDone>>

\* ------------------------------------------------ LeaseManager.reportIssue
\* reportIssue() up to `await fetchWithTimeout(.../api/lease/report-issue)`,
\* or to its throw when no lease is held
ReportIssueStart(origin) ==
    IF lease = NoLease
    THEN /\ calls' = calls
         /\ outcome' = <<"reportIssue", "NoActiveLease", "none">>
         /\ returned' = NoReturn
    ELSE /\ InFlight < MaxInFlight
         /\ calls' = Add(Call("reportIssue", origin, lease.leaseId))
         /\ outcome' = None
         /\ returned' = NoReturn

ReportIssueCall ==
    /\ Running
    /\ UNCHANGED <<clock, config, onReleaseCallback, scanVars>>
    /\ ReportIssueStart("caller")
    /\ lateStart' = (lateStart \/ isShuttingDown)
    /\ UNCHANGED <<mgrVars, quotaVars, brokerVars, lifeVars, released, shutdownDone>>

\* ReportIssueEffect that drops the held lease when the switch fails
ReportIssueEffectClearsLease(resp, data) ==
    IF resp = "ok"
    THEN /\ lease' = [leaseId |-> data.lease_id,
                      account |-> data.account,
                      expiresAt |-> data.expires_at]
         /\ SetTimers(startIdleCheck(startHeartbeat(stopHeartbeat(TimerState),
                                                     data.ttl_seconds)))
         /\ idle' = FALSE
         /\ lastActivity' = clock
         /\ outcome' = <<"reportIssue", "ok", resp>>
    ELSE /\ SetTimers(stopHeartbeat(TimerState))
         /\ lease' = NoLease
         /\ idle' = idle
         /\ lastActivity' = lastActivity
         /\ outcome' = <<"reportIssue", "SwitchFailure", resp>>

\* ReportIssueEffect without the updateActivity() after the new Lease is set
ReportIssueEffectKeepsActivity(resp, data) ==
    IF resp = "ok"
    THEN /\ lease' = [leaseId |-> data.lease_id,
                      account |-> data.account,
                      expiresAt |-> data.expires_at]
         /\ SetTimers(startIdleCheck(startHeartbeat(stopHeartbeat(TimerState),
                                                     data.ttl_seconds)))
         /\ idle' = idle
         /\ lastActivity' = lastActivity
         /\ outcome' = <<"reportIssue", "ok", resp>>
    ELSE IF resp = "undecryptable"
    THEN /\ SetTimers(stopHeartbeat(TimerState))
         /\ UNCHANGED <<lease, idle, lastActivity>>
         /\ outcome' = <<"reportIssue", "SwitchFailure", resp>>
    ELSE /\ UNCHANGED mgrVars
         /\ outcome' = <<"reportIssue", "SwitchFailure", resp>>

\* what reportIssue() does to the manager once the fetch has settled
ReportIssueEffect(resp, data) ==
    IF resp = "ok"
    THEN /\ lease' = [leaseId |-> data.lease_id,
                      account |-> data.account,
                      expiresAt |-> data.expires_at]
         /\ SetTimers(startIdleCheck(startHeartbeat(stopHeartbeat(TimerState),
                                                     data.ttl_seconds)))
         /\ idle' = FALSE
         /\ lastActivity' = clock
         /\ outcome' = <<"reportIssue", "ok", resp>>
    ELSE IF resp = "undecryptable"
    THEN /\ SetTimers(stopHeartbeat(TimerState))
         /\ UNCHANGED <<lease, idle, lastActivity>>
         /\ outcome' = <<"reportIssue", "SwitchFailure", resp>>
    ELSE /\ UNCHANGED mgrVars
         /\ outcome' = <<"reportIssue", "SwitchFailure", resp>>

\* Continuation without the callers' catch around `await this.reportIssue()`
ContinuationRethrows(c, resp, data) ==
    CASE c.origin = "rateLimit" /\ resp = "ok" -> Decision("switch", data.account)
      [] c.origin = "quota" /\ resp = "ok" -> QuotaResult("result", c.val)
      [] OTHER -> NoReturn

\* what the caller awaiting this reportIssue() goes on to return:
\* handleRateLimit() its decision, checkQuota() the poll's result
Continuation(c, resp, data) ==
    CASE c.origin = "rateLimit" ->
            IF resp = "ok" THEN Decision("switch", data.account)
            ELSE Decision("wait", c.val)
      [] c.origin = "quota" -> QuotaResult("result", c.val)
      [] OTHER -> NoReturn

\* reportIssue() from the fetch's settlement to its return or throw; the
\* callers that await it continue in the same turn
ReportIssueReturn(c) ==
    /\ Running
    /\ UNCHANGED <<clock, config, onReleaseCallback, scanVars>>
    /\ c \in Awaiting("reportIssue")
    /\ \E a \in Answers(c) :
          /\ ReportIssueEffect(a[1], Granted)
          /\ Serve(c, a[2])
          /\ returned' = Continuation(c, a[1], Granted)
    /\ calls' = Del(c)
    /\ UNCHANGED <<quotaVars, lifeVars, lateStart, released, shutdownDone>>

\* ------------------------------------------- LeaseManager.updateActivity
UpdateActivity ==
    /\ Running
    /\ UNCHANGED <<clock, config, onReleaseCallback, scanVars>>
    /\ idle' = FALSE
    /\ lastActivity' = clock
    /\ outcome' = None
    /\ returned' = NoReturn
    /\ UNCHANGED <<lease, heartbeatTimer, idleCheckTimer, timers, quotaVars,
                   calls, brokerVars, lifeVars, lateStart, released, shutdownDone>>

\* ------------------------------------------- LeaseManager.handleRateLimit
getMaxRateLimitWaitMs == config.maxRateLimitWaitMs

shouldSwitchOnRateLimit(waitMs) == waitMs > config.maxRateLimitWaitMs

\* handleRateLimit() up to its `wait` return or to the await inside
\* reportIssue(); the switch then ends in ReportIssueReturn
HandleRateLimit(waitMs) ==
    /\ Running
    /\ UNCHANGED <<clock, config, onReleaseCallback, scanVars>>
    /\ idle' = FALSE
    /\ lastActivity' = clock
    /\ IF ~shouldSwitchOnRateLimit(waitMs) \/ lease = NoLease
       THEN /\ calls' = calls
            /\ outcome' = <<"handleRateLimit", "wait", "none">>
            /\ returned' = Decision("wait", waitMs)
       ELSE /\ InFlight < MaxInFlight
            /\ calls' = Add(CallWith("reportIssue", "rateLimit", lease.leaseId, waitMs))
            /\ outcome' = None
            /\ returned' = NoReturn
    /\ lateStart' = (lateStart \/ isShuttingDown)
    /\ UNCHANGED <<lease, heartbeatTimer, idleCheckTimer, timers, quotaVars,
                   brokerVars, lifeVars, released, shutdownDone>>

\* ------------------------------------------------------------ timer ticks
\* the setInterval callback of startHeartbeat: renew() up to its await
HeartbeatTick ==
    /\ Running
    /\ UNCHANGED <<clock, config, onReleaseCallback, scanVars>>
    /\ \E t \in timers : t.kind = "heartbeat"
    /\ RenewStart("heartbeat")
    /\ UNCHANGED <<mgrVars, quotaVars, brokerVars, lifeVars, lateStart,
                   released, shutdownDone>>

\* the setInterval callback of startIdleCheck
IdleTick ==
    /\ Running
    /\ UNCHANGED <<clock, config, onReleaseCallback, scanVars>>
    /\ \E t \in timers : t.kind = "idle"
    /\ IF idle /\ lease # NoLease
       THEN ReleaseStart("idle")
       ELSE /\ outcome' = None
            /\ returned' = NoReturn
            /\ UNCHANGED <<mgrVars, calls, released>>
    /\ UNCHANGED <<quotaVars, brokerVars, lifeVars, lateStart, shutdownDone>>

\* time passes: the idle threshold is reached since the last activity
IdleElapse ==
    /\ Running
    /\ UNCHANGED <<clock, config, onReleaseCallback, scanVars>>
    /\ ~idle
    /\ idle' = TRUE
    /\ lastActivity' = lastActivity
    /\ outcome' = None
    /\ returned' = NoReturn
    /\ UNCHANGED <<lease, heartbeatTimer, idleCheckTimer, timers, quotaVars,
                   calls, brokerVars, lifeVars, lateStart, released, shutdownDone>>

\* time passes: the minimum polling interval is over since the last poll
QuotaIntervalElapse ==
    /\ Running
    /\ UNCHANGED <<clock, config, onReleaseCallback, scanVars>>
    /\ quotaRecent
    /\ quotaRecent' = FALSE
    /\ lastQuotaCheck' = lastQuotaCheck
    /\ outcome' = None
    /\ returned' = NoReturn
    /\ UNCHANGED <<mgrVars, calls, brokerVars, lifeVars, lateStart, released,
                   shutdownDone>>

\* ---------------------------------------------------------- lifecycle.ts
\* initLifecycle(leaseManager), while fewer than n registrations were made
initLifecycleUpTo(n) ==
    /\ Running
    /\ UNCHANGED <<clock, config, onReleaseCallback, scanVars>>
    /\ handlers < n
    /\ leaseManagerRef' = TRUE
    /\ handlers' = IF isShuttingDown THEN handlers ELSE handlers + 1
    /\ outcome' = None
    /\ returned' = NoReturn
    /\ UNCHANGED <<mgrVars, quotaVars, calls, brokerVars, isShuttingDown,
                   watchdog, exitCode, lateStart, released, shutdownDone,
                   signalReleases>>

initLifecycle == initLifecycleUpTo(MaxInit)

\* handleShutdown without the isShuttingDown guard
handleShutdownUnguarded(signal) ==
    /\ Running
    /\ UNCHANGED <<clock, config, onReleaseCallback, scanVars>>
    /\ handlers > 0
    /\ isShuttingDown' = TRUE
    /\ signalReleases' = signalReleases + 1
    /\ ReleaseStart("signal")
    /\ IF lease = NoLease
       THEN watchdog' = -1 /\ shutdownDone' = TRUE
       ELSE watchdog' = 0 /\ shutdownDone' = shutdownDone
    /\ UNCHANGED <<quotaVars, brokerVars, leaseManagerRef, handlers, exitCode,
                   lateStart>>

\* a termination signal is delivered: handleShutdown up to
\* `await leaseManagerRef.release()`, or to its end when release() returned
\* without a fetch
handleShutdown(signal) ==
    /\ Running
    /\ UNCHANGED <<clock, config, onReleaseCallback, scanVars>>
    /\ handlers > 0
    /\ IF isShuttingDown
       THEN /\ outcome' = <<"handleShutdown", "ignored", "none">>
            /\ returned' = NoReturn
            /\ UNCHANGED <<mgrVars, calls, released, isShuttingDown, watchdog,
                           shutdownDone, signalReleases>>
       ELSE /\ isShuttingDown' = TRUE
            /\ signalReleases' = signalReleases + 1
            /\ ReleaseStart("signal")
            /\ IF lease = NoLease
               THEN watchdog' = -1 /\ shutdownDone' = TRUE
               ELSE watchdog' = 0 /\ shutdownDone' = shutdownDone
    /\ UNCHANGED <<quotaVars, brokerVars, leaseManagerRef, handlers, exitCode,
                   lateStart>>

\* the clock of the watchdog's setTimeout advances
AdvanceTime ==
    /\ Running
    /\ UNCHANGED <<clock, config, onReleaseCallback, scanVars>>
    /\ watchdog >= 0
    /\ watchdog < WATCHDOG_TIMEOUT_MS
    /\ watchdog' = watchdog + TickMs
    /\ outcome' = None
    /\ returned' = NoReturn
    /\ UNCHANGED <<mgrVars, quotaVars, calls, brokerVars, isShuttingDown,
                   leaseManagerRef, handlers, exitCode, lateStart, released,
                   shutdownDone, signalReleases>>

\* the watchdog's callback: process.exit(1)
WatchdogFire ==
    /\ Running
    /\ UNCHANGED <<clock, config, onReleaseCallback, scanVars>>
    /\ watchdog >= WATCHDOG_TIMEOUT_MS
    /\ exitCode' = 1
    /\ outcome' = <<"watchdog", "exit", "none">>
    /\ returned' = NoReturn
    /\ UNCHANGED <<mgrVars, quotaVars, calls, brokerVars, isShuttingDown,
                   leaseManagerRef, handlers, watchdog, lateStart, released,
                   shutdownDone, signalReleases>>

\* BeforeExit without `isShuttingDown = true` in the hook
BeforeExitNoGuard ==
    /\ Running
    /\ UNCHANGED <<clock, config, onReleaseCallback, scanVars>>
    /\ handlers > 0
    /\ InFlight = 0
    /\ IF ~isShuttingDown /\ leaseManagerRef
       THEN /\ isShuttingDown' = isShuttingDown
            /\ ReleaseStart("exit")
            /\ exitCode' = IF lease = NoLease THEN 0 ELSE exitCode
       ELSE /\ exitCode' = 0
            /\ outcome' = None
            /\ returned' = NoReturn
            /\ UNCHANGED <<mgrVars, calls, released, isShuttingDown>>
    /\ UNCHANGED <<quotaVars, brokerVars, leaseManagerRef, handlers, watchdog,
                   lateStart, shutdownDone, signalReleases>>

\* the event loop runs empty: the beforeExit hook, and the natural exit when
\* the hook started nothing
BeforeExit ==
    /\ Running
    /\ UNCHANGED <<clock, config, onReleaseCallback, scanVars>>
    /\ handlers > 0
    /\ InFlight = 0
    /\ IF ~isShuttingDown /\ leaseManagerRef
       THEN /\ isShuttingDown' = TRUE
            /\ ReleaseStart("exit")
            /\ exitCode' = IF lease = NoLease THEN 0 ELSE exitCode
       ELSE /\ exitCode' = 0
            /\ outcome' = None
            /\ returned' = NoReturn
            /\ UNCHANGED <<mgrVars, calls, released, isShuttingDown>>
    /\ UNCHANGED <<quotaVars, brokerVars, leaseManagerRef, handlers, watchdog,
                   lateStart, shutdownDone, signalReleases>>

\* ------------------------------------------------------------------ Next
Next ==
    \/ AcquireCall
    \/ \E c \in BagToSet(calls) : AcquireReturn(c)
    \/ ReleaseCall
    \/ \E c \in BagToSet(calls) : ReleaseReturn(c)
    \/ RenewCall
    \/ \E c \in BagToSet(calls) : RenewReturn(c)
    \/ ReportIssueCall
    \/ \E c \in BagToSet(calls) : ReportIssueReturn(c)
    \/ UpdateActivity
    \/ \E w \in WaitInputs : HandleRateLimit(w)
    \/ CheckQuotaCall
    \/ \E c \in BagToSet(calls) : TokenReturn(c)
    \/ \E c \in BagToSet(calls) : ModelsReturn(c)
    \/ \E c \in BagToSet(calls) : QuotaReportReturn(c)
    \/ HeartbeatTick
    \/ IdleTick
    \/ IdleElapse
    \/ QuotaIntervalElapse
    \/ \E l \in broker : BrokerExpire(l)
    \/ initLifecycle
    \/ \E sig \in Signals : handleShutdown(sig)
    \/ AdvanceTime
    \/ WatchdogFire
    \/ BeforeExit

Spec == Init /\ [][Next]_vars

\* ------------------------------------------------------ with time passing
\* the timer t after one call of its callback
Rearmed(t) == [t EXCEPT !.due = t.due + t.ms]

\* HeartbeatDue that skips its renew() while an earlier renew is in flight
HeartbeatDueSerialized ==
    /\ Running
    /\ UNCHANGED <<clock, config, onReleaseCallback, scanVars>>
    /\ \E t \in timers :
          /\ t.kind = "heartbeat"
          /\ t.due = clock
          /\ timers' = (timers \ {t}) \cup {Rearmed(t)}
    /\ IF Awaiting("renew") # {}
       THEN /\ calls' = calls
            /\ outcome' = None
            /\ returned' = NoReturn
       ELSE RenewStart("heartbeat")
    /\ UNCHANGED <<lease, heartbeatTimer, idleCheckTimer, idle, lastActivity,
                   quotaVars, brokerVars, lifeVars, lateStart, released,
                   shutdownDone>>

\* the heartbeat's callback at the time it is due: renew() up to its await
HeartbeatDue ==
    /\ Running
    /\ UNCHANGED <<clock, config, onReleaseCallback, scanVars>>
    /\ \E t \in timers :
          /\ t.kind = "heartbeat"
          /\ t.due = clock
          /\ timers' = (timers \ {t}) \cup {Rearmed(t)}
    /\ RenewStart("heartbeat")
    /\ UNCHANGED <<lease, heartbeatTimer, idleCheckTimer, idle, lastActivity,
                   quotaVars, brokerVars, lifeVars, lateStart, released,
                   shutdownDone>>

\* IdleDue with `>` for the `>=` of the idle test
IdleDueStrictlyAfter ==
    /\ Running
    /\ UNCHANGED <<clock, config, onReleaseCallback, scanVars>>
    /\ \E t \in timers :
          /\ t.kind = "idle"
          /\ t.due = clock
          /\ IF clock - lastActivity > config.idleTimeoutMs /\ lease # NoLease
             THEN ReleaseStart("idle")
             ELSE /\ timers' = (timers \ {t}) \cup {Rearmed(t)}
                  /\ outcome' = None
                  /\ returned' = NoReturn
                  /\ UNCHANGED <<lease, heartbeatTimer, idleCheckTimer, idle,
                                 lastActivity, calls, released>>
    /\ UNCHANGED <<quotaVars, brokerVars, lifeVars, lateStart, shutdownDone>>

\* the idle check's callback at the time it is due
IdleDue ==
    /\ Running
    /\ UNCHANGED <<clock, config, onReleaseCallback, scanVars>>
    /\ \E t \in timers :
          /\ t.kind = "idle"
          /\ t.due = clock
          /\ IF clock - lastActivity >= config.idleTimeoutMs /\ lease # NoLease
             THEN ReleaseStart("idle")
             ELSE /\ timers' = (timers \ {t}) \cup {Rearmed(t)}
                  /\ outcome' = None
                  /\ returned' = NoReturn
                  /\ UNCHANGED <<lease, heartbeatTimer, idleCheckTimer, idle,
                                 lastActivity, calls, released>>
    /\ UNCHANGED <<quotaVars, brokerVars, lifeVars, lateStart, shutdownDone>>

\* time passes by StepMs, not past a timer that is due; the two elapsed-time
\* tests of the manager take their new values
Advance ==
    /\ Running
    /\ clock < StartMs + MaxSteps * StepMs
    /\ \A t \in timers : t.due > clock
    /\ clock' = clock + StepMs
    /\ idle' = (clock' - lastActivity >= config.idleTimeoutMs)
    /\ quotaRecent' = (clock' - lastQuotaCheck < config.quotaCheckIntervalMs)
    /\ outcome' = None
    /\ returned' = NoReturn
    /\ UNCHANGED <<lease, heartbeatTimer, idleCheckTimer, timers, lastActivity,
                   lastQuotaCheck, calls, brokerVars, lifeVars, lateStart,
                   released, shutdownDone, config, onReleaseCallback, scanVars>>

\* renew() is called by the heartbeat only and reportIssue() directly; the
\* caller's own renew() and handleRateLimit() run under Spec
TimedNext ==
    \/ AcquireCall
    \/ \E c \in BagToSet(calls) : AcquireReturn(c)
    \/ ReleaseCall
    \/ \E c \in BagToSet(calls) : ReleaseReturn(c)
    \/ \E c \in BagToSet(calls) : RenewReturn(c)
    \/ ReportIssueCall
    \/ \E c \in BagToSet(calls) : ReportIssueReturn(c)
    \/ UpdateActivity
    \/ CheckQuotaCall
    \/ \E c \in BagToSet(calls) : TokenReturn(c)
    \/ \E c \in BagToSet(calls) : ModelsReturn(c)
    \/ \E c \in BagToSet(calls) : QuotaReportReturn(c)
    \/ HeartbeatDue
    \/ IdleDue
    \/ Advance

\* a manager with idleTimeoutMs configured, and the clock running
TimedInit ==
    /\ Fresh
    /\ quotaData = <<>>
    /\ config = Constructor(IdleConfig)

TimedSpec == TimedInit /\ [][TimedNext]_vars

\* managers constructed with and without the optional fields
ConfigInit ==
    /\ Fresh
    /\ quotaData = <<>>
    /\ \E cfg \in Configs : config = Constructor(cfg)

\* the manager's operations and timers; the coordinator reads no ManagerConfig
ConfigNext ==
    \/ AcquireCall
    \/ \E c \in BagToSet(calls) : AcquireReturn(c)
    \/ ReleaseCall
    \/ \E c \in BagToSet(calls) : ReleaseReturn(c)
    \/ RenewCall
    \/ \E c \in BagToSet(calls) : RenewReturn(c)
    \/ ReportIssueCall
    \/ \E c \in BagToSet(calls) : ReportIssueReturn(c)
    \/ UpdateActivity
    \/ \E w \in WaitInputs : HandleRateLimit(w)
    \/ CheckQuotaCall
    \/ \E c \in BagToSet(calls) : TokenReturn(c)
    \/ \E c \in BagToSet(calls) : ModelsReturn(c)
    \/ \E c \in BagToSet(calls) : QuotaReportReturn(c)
    \/ HeartbeatTick
    \/ IdleTick
    \/ IdleElapse
    \/ QuotaIntervalElapse
    \/ \E l \in broker : BrokerExpire(l)

ConfigSpec == ConfigInit /\ [][ConfigNext]_vars

\* ------------------------------------------- initLifecycle called again
\* the coordinator with a manager that only acquires and releases, a
\* collaborator that registers a release callback, and initLifecycle called
\* more than once
LifecycleNext ==
    \/ onRelease
    \/ AcquireCall
    \/ \E c \in BagToSet(calls) : AcquireReturn(c)
    \/ ReleaseCall
    \/ \E c \in BagToSet(calls) : ReleaseReturn(c)
    \/ initLifecycleUpTo(MaxReinit)
    \/ \E sig \in Signals : handleShutdown(sig)
    \/ AdvanceTime
    \/ WatchdogFire
    \/ BeforeExit

LifecycleSpec == Init /\ [][LifecycleNext]_vars

\* ------------------------------------- answers that cross a switch
\* the caller's one acquire() at start
AcquireOnce ==
    /\ granted = 0
    /\ Awaiting("acquire") = {}
    /\ AcquireCall

\* a caller that acquires once and then works with the Lease: heartbeat
\* renewals, polls, rate-limit reports and switches, with the answer to a
\* renew request travelling while the broker serves the next request
RaceNext ==
    \/ AcquireOnce
    \/ \E c \in BagToSet(calls) : AcquireReturn(c)
    \/ HeartbeatTick
    \/ \E c \in BagToSet(calls) : RenewServed(c)
    \/ \E c \in BagToSet(calls) : RenewReturn(c)
    \/ ReportIssueCall
    \/ \E c \in BagToSet(calls) : ReportIssueReturn(c)
    \/ \E w \in WaitInputs : HandleRateLimit(w)
    \/ CheckQuotaCall
    \/ \E c \in BagToSet(calls) : TokenReturn(c)
    \/ \E c \in BagToSet(calls) : ModelsReturn(c)
    \/ \E c \in BagToSet(calls) : QuotaReportReturn(c)
    \/ QuotaIntervalElapse

RaceSpec == Init /\ [][RaceNext]_vars

\* ------------------------------------------------ a caller that goes quiet
\* after its one acquire() the caller does nothing: only the two timers, the
\* clock and the remote side's answers act
BackgroundNext ==
    \/ AcquireOnce
    \/ \E c \in BagToSet(calls) : AcquireReturn(c)
    \/ HeartbeatDue
    \/ \E c \in BagToSet(calls) : RenewReturn(c)
    \/ \E c \in BagToSet(calls) : TokenReturn(c)
    \/ \E c \in BagToSet(calls) : ModelsReturn(c)
    \/ \E c \in BagToSet(calls) : QuotaReportReturn(c)
    \/ \E c \in BagToSet(calls) : ReportIssueReturn(c)
    \/ IdleDue
    \/ \E c \in BagToSet(calls) : ReleaseReturn(c)
    \/ Advance

BackgroundSpec == TimedInit /\ [][BackgroundNext]_vars

\* ----------------------------------------- the scan of a models answer
DayMs == 24 * 60 * 60 * 1000

\* the loop over Object.values(quotaData.models), from acc on
RECURSIVE ScanModels(_, _)
ScanModels(infos, acc) ==
    IF infos = <<>> THEN acc
    ELSE LET info == Head(infos)
             fraction == IF info.remainingFraction = Undefined THEN 100
                         ELSE info.remainingFraction
         IN  ScanModels(Tail(infos),
                        IF fraction < acc.minRemainingFraction
                        THEN [minRemainingFraction |-> fraction,
                              earliestResetTime |-> info.resetTime]
                        ELSE acc)

\* minRemainingFraction and earliestResetTime after the loop
LowestQuota(infos) ==
    ScanModels(infos, [minRemainingFraction |-> 100, earliestResetTime |-> Undefined])

\* `earliestResetTime || new Date(Date.now() + 24 * 60 * 60 * 1000)`
ResetHint(earliestResetTime) ==
    IF earliestResetTime = Undefined THEN clock + DayMs ELSE earliestResetTime

\* checkQuota() from the models answer to the reset hint it would report
ScanQuota ==
    /\ Running
    /\ scanned = NoScan
    /\ scanned' = [percentage |-> LowestQuota(quotaData).minRemainingFraction,
                   resetTime |-> ResetHint(LowestQuota(quotaData).earliestResetTime)]
    /\ outcome' = None
    /\ returned' = NoReturn
    /\ UNCHANGED <<mgrVars, quotaVars, calls, brokerVars, lifeVars, lateStart,
                   released, shutdownDone, clock, config, onReleaseCallback,
                   quotaData>>

\* sequences over S of length at most n
RECURSIVE SeqsUpTo(_, _)
SeqsUpTo(S, n) ==
    IF n = 0 THEN {<<>>}
    ELSE LET shorter == SeqsUpTo(S, n - 1)
         IN  shorter \cup {Append(q, x) : q \in shorter, x \in S}

\* a manager about to scan any answer of up to MaxModels entries
ScanInit ==
    /\ Fresh
    /\ quotaData \in SeqsUpTo(ModelInfos, MaxModels)
    /\ config = Constructor(NoConfig)

ScanSpec == ScanInit /\ [][ScanQuota]_vars

\* ------------------------------------------- a remote side that may stall
\* the operations whose request goes through fetchWithTimeout; release() and
\* reportQuotaToServer() call fetch directly, without an abort signal
TimedOps == {"acquire", "renew", "reportIssue", "token", "models"}

\* fetchWithTimeout's setTimeout(() => controller.abort(), timeoutMs) fires
\* for the pending call c: its fetch rejects, and the operation goes on from
\* there as after any transport error
Abort(c) ==
    /\ c.op \in TimedOps
    /\ \/ AcquireReturn(c)
       \/ RenewReturn(c)
       \/ ReportIssueReturn(c)
       \/ TokenReturn(c)
       \/ ModelsReturn(c)
    /\ outcome'[3] = "neterr"

AbortOf(op) == \E c \in Awaiting(op) : Abort(c)

\* the manager's operations and timer ticks; nothing obliges the remote side
\* to answer, only the abort timers are sure to fire
StalledNext ==
    \/ AcquireCall
    \/ \E c \in BagToSet(calls) : AcquireReturn(c)
    \/ ReleaseCall
    \/ \E c \in BagToSet(calls) : ReleaseReturn(c)
    \/ RenewCall
    \/ \E c \in BagToSet(calls) : RenewReturn(c)
    \/ ReportIssueCall
    \/ \E c \in BagToSet(calls) : ReportIssueReturn(c)
    \/ CheckQuotaCall
    \/ \E c \in BagToSet(calls) : TokenReturn(c)
    \/ \E c \in BagToSet(calls) : ModelsReturn(c)
    \/ \E c \in BagToSet(calls) : QuotaReportReturn(c)
    \/ HeartbeatTick
    \/ IdleTick
    \/ IdleElapse
    \/ QuotaIntervalElapse

StalledSpec ==
    /\ Init
    /\ [][StalledNext]_vars
    /\ \A op \in TimedOps : WF_vars(AbortOf(op))

\* ================================================================ claims
ReleaseOrigins == {"caller", "idle", "signal", "exit"}
FailedAnswers == {"undecryptable", "malformed", "status", "neterr"}

\* release requests for lease id lid among the calls of bag b
ReleaseRequests(b, lid) ==
    CopiesIn(Call("release", "caller", lid), b) + CopiesIn(Call("release", "idle", lid), b)
    + CopiesIn(Call("release", "signal", lid), b) + CopiesIn(Call("release", "exit", lid), b)

\* this step is a release() call that found a lease and sent its request
ReleaseSent ==
    /\ lease # NoLease
    /\ \E o \in ReleaseOrigins : calls' = Add(Call("release", o, lease.leaseId))

\* this step is a timer tick that issued a network call
TickRequest ==
    /\ lease # NoLease
    /\ \/ calls' = Add(Call("renew", "heartbeat", lease.leaseId))
       \/ calls' = Add(Call("release", "idle", lease.leaseId))

\* C1: a release() call that finds a Lease leaves the manager without one in
\* the same step (hasActiveLease() false, getAccount() null), and release()
\* ends resolved whether the broker's answer is a success, a non-success
\* status or a transport failure.
C1_ReleaseClearsLeaseAndResolves ==
    [][/\ ReleaseSent => lease' = NoLease /\ ~hasActiveLease' /\ getAccount' = 0
       /\ outcome'[1] = "release" => outcome'[2] = "resolved"]_vars

C1_Witness ==
    /\ outcome = <<"release", "resolved", "neterr">>
    /\ lease = NoLease
    /\ granted > 0

\* C2: a reportIssue() that fails (whatever the failed answer) leaves the
\* heartbeat timer and the idle-check timer as they were.
C2_FailedSwitchKeepsTimers ==
    [][outcome'[1] = "reportIssue" /\ outcome'[3] \in FailedAnswers
          => UNCHANGED <<heartbeatTimer, idleCheckTimer, timers>>]_vars

\* C3: a reportIssue() that fails leaves the Lease (id, account, expiresAt)
\* unchanged and ends with a switch failure raised to its caller.
C3_FailedSwitchKeepsLease ==
    [][outcome'[1] = "reportIssue" /\ outcome'[3] \in FailedAnswers
          => lease' = lease /\ outcome'[2] = "SwitchFailure"]_vars

C3_Witness ==
    /\ outcome = <<"reportIssue", "SwitchFailure", "status">>
    /\ lease # NoLease

\* C4: once release() has been called and until acquire() is called again,
\* no heartbeat tick and no idle-check tick issues a network call.
C4_NoTickRequestAfterRelease ==
    [][released => ~TickRequest]_vars

\* C5: release() with no Lease held resolves without a network call; a
\* release() that sends a request has cleared the Lease by then, so a release()
\* called right after it finds none, and no lease id ever has two release
\* requests in flight; no release() raises.
C5_ReleaseIdempotent ==
    [][/\ outcome' = <<"release", "resolved", "none">>
            => lease = NoLease /\ lease' = NoLease /\ calls' = calls
       /\ ReleaseSent => lease' = NoLease
       /\ \A lid \in 1..granted' : ReleaseRequests(calls', lid) <= 1
       /\ outcome'[1] = "release" => outcome'[2] = "resolved"]_vars

C5_Witness ==
    /\ outcome = <<"release", "resolved", "none">>
    /\ Awaiting("release") # {}

\* C6: whenever the manager holds no Lease and has nothing in flight, the
\* broker holds no unexpired lease of this client.
C6_NoStaleLeaseAtBroker ==
    lease = NoLease /\ InFlight = 0 => broker = {}

\* C7: once the shutdown sequence of a signal has completed the manager
\* holds no Lease, now or later, unless a caller began a new lease operation
\* after the signal.
C7_NoLeaseAfterShutdown ==
    shutdownDone /\ ~lateStart => lease = NoLease

\* C8: only the first termination signal runs the shutdown sequence: the
\* coordinator calls release() at most once, only while the guard is unset,
\* and a signal that finds the guard set changes nothing.
C8_OnlyFirstSignalShutsDown ==
    [][/\ signalReleases' <= 1
       /\ signalReleases' # signalReleases => ~isShuttingDown /\ isShuttingDown'
       /\ isShuttingDown => isShuttingDown'
       /\ outcome' = <<"handleShutdown", "ignored", "none">>
            => /\ isShuttingDown
               /\ UNCHANGED <<mgrVars, quotaVars, calls, brokerVars, lifeVars,
                              lateStart, released, shutdownDone>>]_vars

C8_Witness ==
    /\ outcome = <<"handleShutdown", "ignored", "none">>
    /\ signalReleases = 1

\* C9: the process exits with code 1 only from the watchdog, 10 s or more
\* after the signal and with the shutdown's release() still pending; once
\* that release() has completed the watchdog is cleared and exit code 1
\* never happens; the watchdog runs only during a shutdown sequence and its
\* clock does not pass the timeout by a whole tick.
C9_WatchdogExitsOnlyOnHang ==
    /\ exitCode = 1 => /\ watchdog >= WATCHDOG_TIMEOUT_MS
                       /\ ~shutdownDone
                       /\ \E c \in Awaiting("release") : c.origin = "signal"
    /\ shutdownDone => watchdog = -1 /\ exitCode # 1
    /\ watchdog >= 0 => /\ isShuttingDown
                        /\ watchdog < WATCHDOG_TIMEOUT_MS + TickMs
                        /\ \E c \in Awaiting("release") : c.origin = "signal"

C9_Witness == exitCode = 1

\* C10: an acquire() whose fetch does not settle with a usable lease (status,
\* transport error or timeout, undecryptable account) raises an acquire
\* failure, stores no Lease and arms no timer.
C10_FailedAcquireChangesNothing ==
    [][outcome'[1] = "acquire" /\ outcome'[3] \in FailedAnswers
          => /\ outcome'[2] = "AcquireFailure"
             /\ UNCHANGED <<lease, heartbeatTimer, idleCheckTimer, timers>>]_vars

C10_Witness ==
    /\ outcome = <<"acquire", "AcquireFailure", "undecryptable">>
    /\ lease = NoLease
    /\ timers = {}

\* C11: a renew() that fails (non-success status, transport error or timeout,
\* or no Lease left to update) raises a renew failure and leaves the Lease
\* (id, account, expiresAt) and both timers as they were; a heartbeat that
\* was armed for a held Lease is still armed, so its next tick renews again.
C11_FailedRenewChangesNothing ==
    [][outcome'[1] = "renew"
         /\ (outcome'[3] \in FailedAnswers \/ outcome'[2] = "RenewFailure")
          => /\ outcome'[2] = "RenewFailure"
             /\ UNCHANGED <<lease, heartbeatTimer, idleCheckTimer, timers>>
             /\ lease # NoLease /\ heartbeatTimer # 0
                   => \E t \in timers' : t.id = heartbeatTimer' /\ t.kind = "heartbeat"]_vars

C11_Witness ==
    /\ outcome = <<"renew", "RenewFailure", "status">>
    /\ lease # NoLease
    /\ heartbeatTimer # 0

\* C12: renew() and reportIssue() called while no Lease is held end with the
\* no-active-lease error, send nothing and change no state of the manager or
\* the broker; with no Lease held no step issues a renew or report-issue
\* request.
C12_NoLeaseNoRequest ==
    [][/\ outcome'[2] = "NoActiveLease"
            => /\ outcome'[1] \in {"renew", "reportIssue"}
               /\ lease = NoLease
               /\ calls' = calls
               /\ UNCHANGED <<mgrVars, quotaVars, brokerVars>>
       /\ lease = NoLease
            => \A c \in BagToSet(calls') :
                  c.op \in {"renew", "reportIssue"}
                     => CopiesIn(c, calls') <= CopiesIn(c, calls)]_vars

C12_Witness ==
    /\ outcome = <<"reportIssue", "NoActiveLease", "none">>
    /\ granted > 0
    /\ calls = EmptyBag

\* a call of bag b that the step took out: origin o, one of the operations ops
Ended(o, ops) ==
    {c \in BagToSet(calls) :
        c.origin = o /\ c.op \in ops /\ CopiesIn(c, calls') < CopiesIn(c, calls)}

\* a call with origin o and operation in ops that the step put in flight
Begun(o, ops) ==
    {c \in BagToSet(calls') :
        c.origin = o /\ c.op \in ops /\ CopiesIn(c, calls') > CopiesIn(c, calls)}

\* C15: handleRateLimit(waitMs) with waitMs at most the maximum wait returns
\* {wait, waitMs} and sends nothing; with a longer wait it sends a
\* report-issue request for the held Lease and, when that settles, returns
\* {switch, newAccount} on success and {wait, waitMs} on failure; with no
\* Lease it returns {wait, waitMs}; it always returns a decision.
C15_RateLimitDecision ==
    [][/\ outcome' = <<"handleRateLimit", "wait", "none">>
            => /\ calls' = calls
               /\ returned'.op = "handleRateLimit" /\ returned'.action = "wait"
               /\ returned'.value \in WaitInputs
               /\ ~shouldSwitchOnRateLimit(returned'.value) \/ lease = NoLease
       /\ \A c \in Begun("rateLimit", {"reportIssue"}) :
               /\ c.val > config.maxRateLimitWaitMs
               /\ lease # NoLease /\ c.lid = lease.leaseId
               /\ calls' = Add(c)
       /\ \A c \in Ended("rateLimit", {"reportIssue"}) :
               /\ outcome'[1] = "reportIssue"
               /\ returned' = IF outcome'[2] = "ok"
                              THEN Decision("switch", lease'.account)
                              ELSE Decision("wait", c.val)
       /\ returned'.op = "handleRateLimit" => returned'.action \in {"wait", "switch"}]_vars

C15_Witness ==
    /\ outcome[1] = "reportIssue" /\ outcome[2] = "SwitchFailure"
    /\ returned.op = "handleRateLimit" /\ returned.action = "wait"
    /\ returned.value > config.maxRateLimitWaitMs

\* the threshold the tests and the plan's definition of done give
ClaimedDefaultWaitMs == 30000

\* C16: a manager constructed without maxRateLimitWaitMs has a threshold of
\* 30000 ms: getMaxRateLimitWaitMs() is 30000 and shouldSwitchOnRateLimit(w)
\* is w > 30000; handleRateLimit(w) with w <= 30000 sends nothing.
C16_DefaultThresholdIs30000 ==
    [][config = Constructor(NoConfig)
          => /\ getMaxRateLimitWaitMs = ClaimedDefaultWaitMs
             /\ \A w \in WaitInputs \cup {ClaimedDefaultWaitMs, ClaimedDefaultWaitMs + 1} :
                   shouldSwitchOnRateLimit(w) <=> w > ClaimedDefaultWaitMs
             /\ \A c \in Begun("rateLimit", {"reportIssue"}) :
                   c.val > ClaimedDefaultWaitMs]_vars

QuotaChain == {"token", "models", "reportIssue"}

\* C18: every checkQuota() ends in a returned value, null or a result: with
\* no Lease held it returns null and sends nothing, a failed token refresh or
\* models request returns null, a Lease gone while the poll runs returns
\* null, and a switch that fails returns the poll's result.
C18_CheckQuotaNeverRaises ==
    [][/\ outcome'[1] = "checkQuota"
            => returned'.op = "checkQuota" /\ returned'.action \in {"null", "result"}
       /\ lease = NoLease
            => /\ Begun("quota", QuotaChain) = {}
               /\ Ended("quota", {"token"}) # {} => returned' = QuotaResult("null", 0)
       /\ Ended("quota", QuotaChain) # {} /\ Begun("quota", QuotaChain) = {}
            => returned'.op = "checkQuota" /\ returned'.action \in {"null", "result"}
       /\ \A c \in Ended("quota", {"reportIssue"}) :
               returned' = QuotaResult("result", c.val)]_vars

C18_Witness ==
    /\ outcome[1] = "reportIssue" /\ outcome[2] = "SwitchFailure"
    /\ returned.op = "checkQuota" /\ returned.action = "result"

\* C19: a successful poll sends a report-issue request exactly when the
\* minimum remaining fraction is at or below lowQuotaThreshold (20 percent
\* unless configured) and a Lease is held; above the threshold it sends none;
\* the poll's result is returned either way, whatever the switch ends with.
C19_SwitchExactlyOnLowQuota ==
    [][/\ \A c \in Begun("quota", {"reportIssue"}) :
               /\ c.val <= config.lowQuotaThreshold
               /\ lease # NoLease /\ c.lid = lease.leaseId
       /\ outcome'[1] = "checkQuota" /\ outcome'[2] = "result"
            => /\ returned'.value > config.lowQuotaThreshold \/ lease = NoLease
               /\ Begun("quota", {"reportIssue"}) = {}
               /\ returned'.action = "result"
       /\ \A c \in Ended("quota", {"reportIssue"}) :
               returned' = QuotaResult("result", c.val)
       /\ config = Constructor(NoConfig) => config.lowQuotaThreshold = LowQuotaThresholdPct
       /\ config = Constructor(CustomConfig)
            => config.lowQuotaThreshold = CustomConfig.lowQuotaThreshold]_vars

C19_Witness ==
    /\ config = Constructor(CustomConfig)
    /\ \E c \in Awaiting("reportIssue") :
          c.origin = "quota" /\ c.val = config.lowQuotaThreshold

C13_FirstHeartbeatAtHalfTtl ==
    [][/\ outcome'[1] = "acquire" /\ outcome'[2] = "ok"
            => \E t \in timers' :
                  /\ t.id = heartbeatTimer' /\ t.kind = "heartbeat"
                  /\ t.ms = (GrantData.ttl_seconds * 1000) \div 2
                  /\ t.at = clock
                  /\ t.due = clock + t.ms
       /\ \A c \in Begun("heartbeat", {"renew"}) :
               \E t \in timers :
                  /\ t.id = heartbeatTimer /\ t.kind = "heartbeat"
                  /\ clock >= t.at + t.ms
                  /\ (clock - t.at) % t.ms = 0
                  /\ Rearmed(t) \in timers'
       /\ \A t \in timers :
               t.kind = "heartbeat"
                  => /\ t.due >= clock /\ t.due - clock <= t.ms
                     /\ clock' > clock => t \in timers' /\ t.due >= clock']_vars

C13_Witness ==
    /\ lease # NoLease
    /\ \E c \in Awaiting("renew") : c.origin = "heartbeat"
    /\ \E t \in timers :
          /\ t.kind = "heartbeat"
          /\ t.ms = (GrantData.ttl_seconds * 1000) \div 2
          /\ clock = t.at + t.ms
          /\ t.due = clock + t.ms

\* C14: the idle check ticks every 60 s while a Lease is held; a tick that
\* finds the last activity at least idleTimeoutMs back releases the Lease, a
\* tick that finds it more recent leaves the Lease in place, and no release is
\* started by the idle check before then, so every updateActivity() puts the
\* release off by the whole threshold.
C14_IdleReleaseAtThreshold ==
    [][/\ idle <=> clock - lastActivity >= config.idleTimeoutMs
       /\ lease # NoLease
            => \E t \in timers : t.id = idleCheckTimer /\ t.kind = "idle"
       /\ \A t \in timers :
               t.kind = "idle"
                  => /\ t.ms = IDLE_CHECK_INTERVAL_MS
                     /\ t.due >= clock /\ t.due - clock <= t.ms
                     /\ clock' > clock => t \in timers' /\ t.due >= clock'
                     /\ Rearmed(t) \in timers' /\ t \notin timers'
                           => /\ clock - lastActivity < config.idleTimeoutMs
                                    \/ lease = NoLease
                              /\ lease' = lease
       /\ \A c \in Begun("idle", {"release"}) :
               /\ lease # NoLease /\ c.lid = lease.leaseId
               /\ clock - lastActivity >= config.idleTimeoutMs
               /\ \E t \in timers : t.kind = "idle" /\ t.due = clock
               /\ lease' = NoLease
       /\ outcome' = None /\ lastActivity' # lastActivity => lastActivity' = clock]_vars

C14_Witness ==
    /\ lease = NoLease
    /\ \E c \in Awaiting("release") : c.origin = "idle"
    /\ clock - lastActivity = config.idleTimeoutMs
    /\ lastActivity > StartMs

TimersOf(kind) == {t \in timers : t.kind = kind}

\* C21: at most one heartbeat timer and at most one idle-check timer are
\* alive, and each live timer is the one the manager holds the handle of, so
\* no timer the manager has lost the handle of keeps ticking.
C21_AtMostOneTimerOfAKind ==
    /\ Cardinality(TimersOf("heartbeat")) <= 1
    /\ Cardinality(TimersOf("idle")) <= 1
    /\ \A t \in TimersOf("heartbeat") : t.id = heartbeatTimer
    /\ \A t \in TimersOf("idle") : t.id = idleCheckTimer
    /\ timers = TimersOf("heartbeat") \cup TimersOf("idle")

C21_Witness ==
    /\ outcome = <<"reportIssue", "ok", "ok">>
    /\ Cardinality(TimersOf("heartbeat")) = 1
    /\ Cardinality(TimersOf("idle")) = 1
    /\ Awaiting("renew") # {}


\* C22: reportIssue() installs a new Lease only over a held one: in every step
\* in which a switch succeeds a Lease was held just before, release() calls
\* made while the switch was in flight included.
C22_SwitchOnlyWhileLeaseHeld ==
    [][outcome'[1] = "reportIssue" /\ outcome'[2] = "ok" => lease # NoLease]_vars

\* a timer is armed: a handle is held or an interval is alive
Armed == heartbeatTimer # 0 \/ idleCheckTimer # 0 \/ timers # {}

\* C25: whenever a heartbeat or idle-check timer is armed a Lease is held,
\* before and after every step; the step of release() that clears the Lease
\* has cancelled both timers, so a timer callback never runs without a Lease.
C25_TimersOnlyWithLease ==
    [][/\ Armed => lease # NoLease
       /\ Armed' => lease' # NoLease
       /\ lease # NoLease /\ lease' = NoLease
            => ~Armed' /\ outcome'[1] \in {"none", "release"}
       /\ ReleaseSent => ~Armed' /\ lease' = NoLease]_vars

C25_Witness ==
    /\ lease = NoLease
    /\ ~Armed
    /\ \E c \in Awaiting("release") : c.origin = "signal"
    /\ Awaiting("acquire") # {}

\* C26: in every reachable state in which a Lease is held a heartbeat timer
\* is armed, whatever ticks, renewals or switch attempts have failed before.
C26_HeartbeatArmedWhileLeaseHeld ==
    lease # NoLease
       => \E t \in TimersOf("heartbeat") : t.id = heartbeatTimer

\* C28: a heartbeat tick itself starts no quota poll; the poll of a tick is
\* started in the step in which that tick's renew() succeeds (Lease held,
\* expiry updated, heartbeat re-armed with the new TTL); a tick's renew() that
\* fails starts no poll, leaves the timers as they were and does not end the
\* process, and a tick that finds no Lease sends nothing.
C28_PollOnlyAfterRenewSucceeds ==
    [][/\ Begun("heartbeat", {"renew"}) # {} => Begun("quota", QuotaChain) = {}
       /\ \A c \in Ended("heartbeat", {"renew"}) :
               /\ Begun("quota", {"token"}) # {}
                     => /\ lease # NoLease
                        /\ lease' = [lease EXCEPT !.expiresAt = RenewData.expires_at]
                        /\ \E t \in TimersOf("heartbeat")' :
                               t.ms = HeartbeatIntervalMs(RenewData.ttl_seconds)
               /\ outcome'[1] = "renew"
                     => /\ outcome'[2] = "RenewFailure"
                        /\ Begun("quota", QuotaChain) = {}
                        /\ UNCHANGED <<lease, timers, heartbeatTimer, idleCheckTimer,
                                       quotaVars, exitCode>>
               /\ outcome'[1] \in {"renew", "checkQuota", "none"}
       /\ \A c \in Ended("caller", {"renew"}) : Begun("quota", QuotaChain) = {}
       /\ outcome' = <<"renew", "NoActiveLease", "none">>
            => Begun("quota", QuotaChain) = {} /\ exitCode' = exitCode]_vars

C28_Witness ==
    /\ Awaiting("token") # {}
    /\ Awaiting("renew") = {}
    /\ outcome = None
    /\ quotaRecent
    /\ lease # NoLease /\ lease.expiresAt = RenewData.expires_at
    /\ \E t \in TimersOf("heartbeat") :
          t.id = heartbeatTimer /\ t.ms = HeartbeatIntervalMs(RenewData.ttl_seconds)

SwitchOrigins == {"caller", "rateLimit", "quota"}

\* C29: the step that begins a reportIssue() leaves the Lease as it is; the
\* step in which it succeeds replaces the Lease as a whole with the broker's
\* new one (id, account, expiry), leaves exactly one heartbeat armed at that
\* time with the new TTL's period and one idle check armed at that time, and
\* sets last-activity to that time; a reportIssue() that does not succeed
\* leaves the Lease as it is, and a held Lease never mixes two leases' fields.
C29_SwitchReplacesLeaseWhole ==
    [][/\ \A o \in SwitchOrigins :
            Begun(o, {"reportIssue"}) # {} => lease' = lease /\ lease # NoLease
       /\ outcome'[1] = "reportIssue" /\ outcome'[2] = "ok"
            => /\ lease' = [leaseId |-> Granted.lease_id,
                            account |-> Granted.account,
                            expiresAt |-> Granted.expires_at]
               /\ lease' # lease
               /\ TimersOf("heartbeat")' =
                     {[id |-> heartbeatTimer', kind |-> "heartbeat",
                       ms |-> (Granted.ttl_seconds * 1000) \div 2,
                       at |-> clock,
                       due |-> clock + (Granted.ttl_seconds * 1000) \div 2]}
               /\ TimersOf("idle")' =
                     {[id |-> idleCheckTimer', kind |-> "idle",
                       ms |-> IDLE_CHECK_INTERVAL_MS,
                       at |-> clock,
                       due |-> clock + IDLE_CHECK_INTERVAL_MS]}
               /\ lastActivity' = clock
               /\ idle' = FALSE
       /\ outcome'[1] = "reportIssue" /\ outcome'[2] # "ok" => lease' = lease
       /\ lease' # NoLease => lease'.account = lease'.leaseId]_vars

C29_Witness ==
    /\ outcome = <<"reportIssue", "ok", "ok">>
    /\ lease.leaseId = 2
    /\ clock > StartMs
    /\ lastActivity = clock
    /\ \E t \in TimersOf("idle") : t.at = clock

\* the step before ended a poll attempt in failure, and this step is a
\* checkQuota() call made with a Lease held
CallAfterFailedPoll ==
    /\ outcome[1] = "checkQuota" /\ outcome[2] = "null"
    /\ outcome[3] \in {"status", "neterr"}
    /\ lease # NoLease
    /\ \/ Begun("quota", {"token"}) # {}
       \/ outcome' = <<"checkQuota", "null", "none">>

\* C27 as stated: a poll attempt that fails starts no new interval, so the
\* checkQuota() call that follows a failed attempt polls instead of being
\* skipped.
C27_FailedPollStartsNoInterval ==
    [][CallAfterFailedPoll => Begun("quota", {"token"}) # {}]_vars

\* C27, amended: the interval is counted from the start of the last poll
\* attempt, failed or not: lastQuotaCheck is set when an attempt starts, the
\* end of an attempt (null or result) leaves it as it is, and a checkQuota()
\* call that follows a failed attempt polls exactly when the interval since
\* that attempt's start is over.
C27_IntervalFromLastAttempt ==
    [][/\ Ended("quota", {"token", "models"}) # {} => UNCHANGED quotaVars
       /\ \A c \in Begun("quota", {"token"}) :
               ~quotaRecent /\ quotaRecent' /\ lastQuotaCheck' = clock
       /\ CallAfterFailedPoll
            => (Begun("quota", {"token"}) # {} <=> ~quotaRecent)]_vars

C27_Witness ==
    /\ outcome = <<"checkQuota", "null", "neterr">>
    /\ lease # NoLease
    /\ quotaRecent
    /\ lastQuotaCheck = clock
    /\ Awaiting("token") = {} /\ Awaiting("models") = {}

\* C30: whichever of the idle check, a signal, the exit hook and the caller
\* calls release(), the step that sends a release request for a lease id is
\* taken with that Lease held and leaves no Lease and no timer armed; while
\* the request is in flight the Lease held is never that one, no lease id has
\* two requests in flight, and a Lease installed later has an id the broker
\* had not granted before, so no lease id has a second request sent.
C30_OneReleaseRequestPerLease ==
    [][/\ \A o \in ReleaseOrigins : \A c \in Begun(o, {"release"}) :
               /\ lease # NoLease /\ c.lid = lease.leaseId
               /\ calls' = Add(c)
               /\ lease' = NoLease
               /\ ~Armed'
       /\ \A c \in Awaiting("release") :
               /\ c.origin \in ReleaseOrigins
               /\ c.lid \in 1..granted
               /\ lease.leaseId # c.lid
               /\ ReleaseRequests(calls, c.lid) = 1
       /\ lease # NoLease => lease.leaseId \in 1..granted
       /\ lease' # NoLease /\ lease'.leaseId # lease.leaseId
            => lease'.leaseId > granted]_vars

C30_Witness ==
    /\ lease = NoLease
    /\ ~Armed
    /\ \E c1, c2 \in Awaiting("release") :
          c1.origin = "idle" /\ c2.origin = "signal" /\ c1.lid # c2.lid

\* C24: however often initLifecycle is called, at most one shutdown handler
\* per signal and one natural-exit hook are registered, and a call made once
\* shutdown has begun registers nothing.
C24_HandlersRegisteredOnce ==
    [][/\ handlers' <= 1
       /\ isShuttingDown => handlers' = handlers]_vars

LeaseOps == {"acquire", "renew", "release", "reportIssue", "token", "models"}

\* this step ends a pending network call of operation op
CallEnds(op) ==
    \E c \in Awaiting(op) : CopiesIn(c, calls') < CopiesIn(c, calls)

\* calls of operation op do not stay pending for ever: again and again none
\* is pending, or again and again one of them ends
Completes(op) ==
    []<>(Awaiting(op) = {}) \/ []<><<CallEnds(op)>>_vars

\* C23: every network call of a lease operation (acquire, renew, release,
\* switch, quota poll) is cut off by its timeout, so none stays pending for
\* ever even if the remote side never answers.
C23_EveryCallTimesOut == \A op \in LeaseOps : Completes(op)

\* the calls that go through fetchWithTimeout do not stay pending for ever
TimedCallsComplete == \A op \in TimedOps : Completes(op)

\* this step is the callback of the heartbeat timer, run at the time it is due
HeartbeatFires ==
    \E t \in timers :
        /\ t.kind = "heartbeat"
        /\ t.due = clock
        /\ Rearmed(t) \in timers'
        /\ t \notin timers'

\* C31: heartbeat ticks are not serialised with the completion of a renew: a
\* tick that finds a Lease sends a renew request for it whatever requests are
\* still in flight, so two renew requests of the heartbeat can be outstanding
\* for the same lease.
C31_TickRenewsWhateverIsInFlight ==
    [][HeartbeatFires =>
          IF lease = NoLease
          THEN calls' = calls /\ outcome' = <<"renew", "NoActiveLease", "none">>
          ELSE calls' = Add(Call("renew", "heartbeat", lease.leaseId))]_vars

C31_Witness ==
    /\ lease # NoLease
    /\ CopiesIn(Call("renew", "heartbeat", lease.leaseId), calls) = 2
    /\ \E t \in TimersOf("heartbeat") : t.id = heartbeatTimer /\ t.due > t.at + t.ms

\* this step is the settlement of a renew request
RenewEnds == Ended("heartbeat", {"renew"}) \cup Ended("caller", {"renew"}) # {}

\* the heartbeat timer a renewal arms: one interval of the renewed TTL, from now
RenewedHeartbeat(id) ==
    [id |-> id, kind |-> "heartbeat",
     ms |-> HeartbeatIntervalMs(RenewData.ttl_seconds),
     at |-> clock,
     due |-> clock + HeartbeatIntervalMs(RenewData.ttl_seconds)]

\* C32 as stated: while a Lease is held and not switched, the settlement of a
\* renew request does not move the time of the following heartbeat tick.
C32_RenewCompletionKeepsCadence ==
    [][RenewEnds /\ lease # NoLease => TimersOf("heartbeat")' = TimersOf("heartbeat")]_vars

\* C32, amended: a failed renew leaves the heartbeat timer as it is; a
\* successful renew arms it anew, so the following tick comes one interval of
\* the renewed TTL after the renew settled; and a step that settles no
\* acquire, renew or switch and releases nothing moves a heartbeat tick only
\* by firing it, to one interval later.
C32_CadenceRestartsAtRenewal ==
    [][/\ RenewEnds /\ outcome'[2] = "RenewFailure" =>
             UNCHANGED <<timers, heartbeatTimer>>
       /\ RenewEnds /\ outcome'[2] # "RenewFailure" =>
             /\ heartbeatTimer' # 0
             /\ TimersOf("heartbeat")' = {RenewedHeartbeat(heartbeatTimer')}
       /\ (/\ Ended("caller", {"acquire"}) = {}
           /\ ~RenewEnds
           /\ \A o \in SwitchOrigins : Ended(o, {"reportIssue"}) = {}
           /\ lease' = lease) =>
             \A t \in TimersOf("heartbeat") :
                 \/ t \in timers'
                 \/ t.due = clock /\ Rearmed(t) \in timers']_vars

\* a renew settled one step of the clock after the first tick, and the poll
\* chained to it began: the next tick is due a full interval of the renewed
\* TTL after the settlement
C32_Witness ==
    /\ lease.leaseId = 1
    /\ lastActivity = StartMs
    /\ clock = StartMs + 2 * StepMs
    /\ lastQuotaCheck = clock
    /\ Awaiting("renew") = {}
    /\ TimersOf("heartbeat") = {RenewedHeartbeat(heartbeatTimer)}
    /\ Awaiting("token") # {}

\* this step is a run of the beforeExit hook
ExitHookRuns == exitCode' = 0 \/ Begun("exit", {"release"}) # {}

\* this step called release(): it sent a request or found no Lease
ReleaseCalled ==
    \/ \E o \in ReleaseOrigins : Begun(o, {"release"}) # {}
    \/ outcome' = <<"release", "resolved", "none">>

\* C33: the beforeExit hook calls release() exactly when no shutdown has begun
\* and a manager is registered, and sets isShuttingDown when it does; once
\* isShuttingDown is set, a signal is ignored and neither handleShutdown nor
\* the hook calls release().
C33_ExitHookReleasesOnceAndGuards ==
    [][/\ ExitHookRuns =>
             /\ ReleaseCalled <=> ~isShuttingDown /\ leaseManagerRef
             /\ ReleaseCalled => isShuttingDown'
       /\ isShuttingDown =>
             /\ signalReleases' = signalReleases
             /\ Begun("signal", {"release"}) = {}
             /\ Begun("exit", {"release"}) = {}
             /\ outcome'[1] = "handleShutdown" => outcome'[2] = "ignored"]_vars

\* a signal was ignored while the hook's release request was still in flight
C33_Witness ==
    /\ outcome = <<"handleShutdown", "ignored", "none">>
    /\ signalReleases = 0
    /\ isShuttingDown
    /\ \E c \in Awaiting("release") : c.origin = "exit"

\* this step is the settlement of a release request
ReleaseEnds == \E o \in ReleaseOrigins : Ended(o, {"release"}) # {}

\* C34: with a callback registered, it is called once by each step that
\* settles a release request, whatever the broker answered, and by no other
\* step; a release() that found no Lease returns without calling it.
C34_CallbackOncePerReleaseAttempt ==
    [][/\ returned' = Notified => onReleaseCallback /\ ReleaseEnds
       /\ onReleaseCallback /\ ReleaseEnds =>
             /\ returned' = Notified
             /\ outcome'[1] = "release" /\ outcome'[3] \in {"ok", "status", "neterr"}
       /\ outcome' = <<"release", "resolved", "none">> => returned' = NoReturn]_vars

\* the callback was called after a release attempt the broker refused
C34_Witness ==
    /\ returned = Notified
    /\ outcome = <<"release", "resolved", "status">>
    /\ lease = NoLease

\* the fraction an entry counts with, in percent
FractionOf(info) ==
    IF info.remainingFraction = Undefined THEN 100 ELSE info.remainingFraction

\* the minimum fraction over the entries, 100 when there is none
LowestFraction(infos) ==
    IF infos = <<>> THEN 100
    ELSE CHOOSE m \in {FractionOf(infos[i]) : i \in 1..Len(infos)} :
             \A i \in 1..Len(infos) : m <= FractionOf(infos[i])

\* the reset times of the entries whose fraction is the minimum
ResetTimesAtLowest(infos) ==
    {infos[i].resetTime : i \in {j \in 1..Len(infos) :
        /\ FractionOf(infos[j]) = LowestFraction(infos)
        /\ infos[j].resetTime # Undefined}}

\* the scan finds the minimum remaining fraction over all entries, an entry
\* without a fraction counting as 1.0
ScanFindsLowestFraction ==
    scanned # NoScan => scanned.percentage = LowestFraction(quotaData)

\* C35: the reset hint of a poll that finds low quota is the earliest reset
\* time among the entries whose fraction equals the minimum remaining
\* fraction over all entries, and now + 24 hours when none of them has a
\* reset time.
C35_ResetHintIsEarliestAtLowest ==
    scanned # NoScan /\ scanned.percentage <= config.lowQuotaThreshold =>
        /\ scanned.percentage = LowestFraction(quotaData)
        /\ scanned.resetTime =
              IF ResetTimesAtLowest(quotaData) = {} THEN clock + DayMs
              ELSE CHOOSE r \in ResetTimesAtLowest(quotaData) :
                       \A q \in ResetTimesAtLowest(quotaData) : r <= q

\* the account the broker hands out with lease lid (see Granted)
AccountOfLease(lid) == lid

\* C36: a poll stays with the lease it began with: the models request carries
\* the project of the account whose refresh token the poll sent, and the
\* lease a low-quota poll reports to the broker as exhausted is the lease
\* whose account was polled, also when the Lease was replaced in between.
C36_PollReportsThePolledLease ==
    [][/\ \A m \in Begun("quota", {"models"}) : m.val = AccountOfLease(m.lid)
       /\ \A m \in Ended("quota", {"models"}), r \in Begun("quota", {"reportIssue"}) :
             r.lid = m.lid]_vars

\* the second half of C36 alone
PollReportsThePolledLease ==
    [][\A m \in Ended("quota", {"models"}), r \in Begun("quota", {"reportIssue"}) :
          r.lid = m.lid]_vars

\* this step is the settlement of the renew request c
RenewEndsFor(c) ==
    /\ c.op = "renew"
    /\ CopiesIn(c, calls') < CopiesIn(c, calls)
    /\ [c EXCEPT !.val = 1] \notin Begun(c.origin, {"renew"})

\* C37: the answer to a renew request changes the expiry and the heartbeat
\* only of the lease the request was sent for: when the Lease has been
\* replaced by a switch in between, the new Lease and its heartbeat stay as
\* they are.
C37_RenewTouchesOnlyItsLease ==
    [][\A c \in BagToSet(calls) :
          RenewEndsFor(c) /\ c.lid # lease.leaseId =>
              /\ lease' = lease
              /\ UNCHANGED <<timers, heartbeatTimer>>]_vars

\* C38: a Lease stops being held only with a request for it at the broker: the
\* step that drops or overwrites it sends a release request for its lease id,
\* or settles a report-issue request for it, or leaves one in flight.
C38_NoLeaseDroppedUnreported ==
    [][lease # NoLease /\ lease'.leaseId # lease.leaseId =>
          \/ \E o \in ReleaseOrigins : \E c \in Begun(o, {"release"}) :
                c.lid = lease.leaseId
          \/ \E c \in BagToSet(calls) :
                c.op = "reportIssue" /\ c.lid = lease.leaseId]_vars

\* C39: background activity does not postpone the idle release: once the
\* caller's acquire() has settled and the caller does nothing more, no step
\* moves last-activity or takes back an idle threshold that was reached, so
\* the idle check releases the Lease at its first tick at or after the
\* threshold.
C39_BackgroundKeepsLastActivity ==
    [][/\ Ended("caller", {"acquire"}) = {} =>
             /\ lastActivity' = lastActivity
             /\ idle => idle'
       /\ lease # NoLease => clock - lastActivity <= config.idleTimeoutMs]_vars

\* C40 as stated: when a release() call resolves, no release request of the
\* manager is still in flight.
C40_NoReleaseInFlightAtResolve ==
    [][outcome'[1] = "release" /\ outcome'[2] = "resolved" =>
          Awaiting("release")' = {}]_vars

\* C40, amended: a release() that finds no Lease resolves in the step it is
\* called in and sends nothing, whatever release request is still in flight;
\* a release() that finds a Lease does not resolve in that step, but in the
\* step that settles the request it sent.
C40_ReleaseAwaitsOnlyItsOwnRequest ==
    [][/\ outcome' = <<"release", "resolved", "none">> =>
             lease = NoLease /\ calls' = calls
       /\ outcome'[1] = "release" /\ outcome'[3] # "none" => ReleaseEnds
       /\ (\E o \in ReleaseOrigins : Begun(o, {"release"}) # {}) =>
             outcome'[1] # "release"]_vars

\* the shutdown sequence ran to its end while the release request of the idle
\* check was still in flight
C40_Witness ==
    /\ outcome = <<"release", "resolved", "none">>
    /\ shutdownDone
    /\ signalReleases = 1
    /\ \E c \in Awaiting("release") : c.origin = "idle"

====
